---- MODULE Spec2Model ----
(***************************************************************************)
(* PayWave (src/app.py): users, rates, trades and withdrawals kept in a    *)
(* SQLite store, and the Flask handlers that read and write them.          *)
(*                                                                         *)
(* Units.  amount_usd is counted in eighths of a dollar, so that every     *)
(* input is a binary fraction and float(amount) * rate is exact;           *)
(* rate_ngn_per_usd is a whole number of NGN per USD; the amount_ngn of a  *)
(* trade or a withdrawal is written as a whole number h of hundredths of a *)
(* naira and stands for the double nearest to h/100, which is what         *)
(* round(x, 2) and float(text) produce; balance_ngn, the one column that   *)
(* arithmetic is done on, is that double itself (section REAL).            *)
(***************************************************************************)
EXTENDS Integers, Sequences, FiniteSets, TLC

VARIABLES
    users,        \* table users: row id = index; [email, password, balance_ngn, role]
    rates,        \* table rates: row id = index; [method, rate_ngn_per_usd, tag, status]
    trades,       \* table trades: [user_id, method, amount_usd, amount_ngn, proof, status]
    withdrawals,  \* table withdrawals: [user_id, amount_ngn, status]
    session,      \* the browser's signed session cookie: [user_id, role]
    response,     \* what the last handler answered: [handler, redirect, flash]
    credited,     \* history: per trade id, how many committed credits it caused
    debited,      \* history: per withdrawal id, how many committed debits it caused
    req,          \* per worker, the request it is handling (concurrent runs)
    txn           \* the open write transaction: [owner, users, trades, withdrawals]

vars == <<users, rates, trades, withdrawals, session, response, credited, debited, req, txn>>
store == <<users, rates, trades, withdrawals>>

\* ---------------------------------------------------------------- bounds
MaxUsers == 3
MaxTrades == 1
MaxWithdrawals == 2
Workers == {1, 2}
\* the worker whose request is followed statement by statement where one is enough
Overlap == {1}

\* Python's None, which is no text: what request.form.get and request.files.get return
\* for a field the request does not carry, and the NULL of a column.  A value that may
\* be None is held as a sequence: <<>> for None, <<x>> for the value x.
None == <<>>
Some(x) == <<x>>
The(o) == o[1]

\* ---------------------------------------------------------------- inputs
\* The requests of Next and NextConc carry these form values: a registration of a new
\* email, the logins of the admin and of that user, deposits of 10 and of -1 dollars
\* through CashApp (1400 NGN per USD), a withdrawal of 7000.12 naira (two of them fit
\* into the 14000 naira of an approved deposit at submission, and only one at
\* approval), and rate forms that lock and unlock CashApp.
\* request.form of /register and /login: <<email, password>>
RegisterInputs == { <<" A@X.com", "admin123">> }
LoginInputs == { <<"admin@paywave.com", "admin123">>, <<" A@X.com", "admin123">> }
\* request.form and request.files of /deposit: <<method, amount, proof>>, the proof
\* being None when the request carries no file part and Some(file name) when it does
DepositInputs == { <<"CashApp", "10", None>>, <<"CashApp", "-1", None>> }
\* request.form of /withdraw: <<name, bank, account, amount>>
WithdrawInputs == { <<"Ada", "GTB", "0123", "7000.12">> }
\* request.form of POST /admin: per rate row id, the fields rate_<id>, tag_<id>,
\* status_<id> (None when the form does not carry the field, Some(text) when it does)
NoFields == [rate |-> None, tag |-> None, status |-> None]
Forms ==
    { [i \in 1 .. 4 |-> IF i = 2 THEN [rate |-> None, tag |-> None, status |-> Some("locked")]
                        ELSE NoFields],
      [i \in 1 .. 4 |-> IF i = 2 THEN [rate |-> Some(""), tag |-> None, status |-> Some("active")]
                        ELSE IF i = 1 THEN [rate |-> Some("abc"), tag |-> None,
                                            status |-> Some("bogus")]
                        ELSE NoFields] }

\* The forms of the specifications that look at one kind of request more closely.
\* request.form of /register: two spellings of one email, a second email, the admin's
\* email, a blank email and an empty password
RegisterForms ==
    { <<" A@X.com", "admin123">>, <<"a@x.com", "admin123">>, <<"b@x.com", "admin123">>,
      <<"admin@paywave.com", "admin123">>, <<" ", "admin123">>, <<"b@x.com", "">> }

\* request.form of /withdraw with the amounts and payee fields a browser can send:
\* a valid request, amounts of zero, below zero and not a number, and a blank name
WithdrawForms ==
    { <<"Ada", "GTB", "0123", "1024.12">>, <<"Ada", "GTB", "0123", "0">>,
      <<"Ada", "GTB", "0123", "-1024.12">>, <<"Ada", "GTB", "0123", "abc">>,
      <<" ", "GTB", "0123", "1024.12">> }

\* request.form of POST /admin: a form that only locks CashApp; a form that only sets
\* CashApp's rate to 1; and a batch that gives CashApp the rate 0, a new tag and the
\* status active while giving Bitcoin a rate that is no number and an unknown status
RateForms ==
    { [i \in 1 .. 4 |-> IF i = 2 THEN [rate |-> None, tag |-> None, status |-> Some("locked")]
                        ELSE NoFields],
      [i \in 1 .. 4 |-> IF i = 2 THEN [rate |-> Some("1"), tag |-> None, status |-> None]
                        ELSE NoFields],
      [i \in 1 .. 4 |-> IF i = 2 THEN [rate |-> Some("0"), tag |-> Some("CashApp tag: $PW"),
                                       status |-> Some("active")]
                        ELSE IF i = 1 THEN [rate |-> Some("abc"), tag |-> None,
                                            status |-> Some("bogus")]
                        ELSE NoFields] }

\* request.form of POST /admin in NextDeposit, where the price of a trade is looked
\* at: a form that gives CashApp the rate 1, a new tag and the status active
PriceForms ==
    { [i \in 1 .. 4 |-> IF i = 2 THEN [rate |-> Some("1"), tag |-> Some("CashApp tag: $PW"),
                                       status |-> Some("active")]
                        ELSE NoFields] }

\* the deposit of NextRates, where the trade is there to meet the rate updates
RateDeposits == { <<"CashApp", "0.125", None>> }

\* request.form and request.files of /deposit: 10 dollars, 0.125 and 0.375 dollars
\* (whose naira values at 1 NGN per USD have a third decimal), an amount that is no
\* number, and a method that has no rate row, all without a proof; and 10 dollars
\* with a proof file: an upper-case extension, a name with a blank, an extension that
\* is not allowed, and a file part with an empty name
DepositForms ==
    { <<"CashApp", "10", None>>, <<"CashApp", "0.125", None>>, <<"CashApp", "0.375", None>>,
      <<"CashApp", "abc", None>>, <<"Dogecoin", "10", None>>,
      <<"CashApp", "10", Some("a.PNG")>>, <<"CashApp", "10", Some("my proof.png")>>,
      <<"CashApp", "10", Some("a.exe")>>, <<"CashApp", "10", Some("")>> }

\* every text that a field of the forms above carries and that a handler strips,
\* lower-cases or takes for a file name
FormTexts ==
    UNION ( {{i[1]} : i \in RegisterInputs \cup LoginInputs \cup RegisterForms}
            \cup {{i[1], i[2], i[3]} : i \in WithdrawInputs \cup WithdrawForms}
            \cup {{The(i[3])} : i \in {d \in DepositInputs \cup DepositForms : d[3] # None}} )

\* every text that a field of the forms above carries and that a handler hands to float()
AmountTexts ==
    {i[2] : i \in DepositInputs \cup DepositForms \cup RateDeposits}
    \cup {i[4] : i \in WithdrawInputs \cup WithdrawForms}
    \cup UNION {{The(form[k].rate) : k \in {k \in 1 .. 4 : form[k].rate # None}} :
                  form \in Forms \cup RateForms \cup PriceForms}

\* ---------------------------------------------------------------- helpers
\* the characters of a text, one string each, as a sequence and as a set
Chars(s) == [i \in 1 .. Len(s) |-> SubSeq(s, i, i)]
CharsOf(s) == {SubSeq(s, i, i) : i \in 1 .. Len(s)}

\* "".join(cs[1 .. n])
RECURSIVE Join(_, _)
Join(cs, n) == IF n = 0 THEN "" ELSE Join(cs, n - 1) \o cs[n]

\* The texts of a request are made of the characters U+0000 to U+00FF.
\* str.isspace() holds of U+0009 to U+000D, U+001C to U+001F, the blank, U+0085 and
\* U+00A0: what str.strip() takes off and str.split() splits at
Whitespace == {" ", "\t", "\n", "", "\f", "\r", "", "", "", "", "", " "}
\* float() takes off the same characters but U+001C to U+001F
FloatSpace == Whitespace \ {"", "", "", ""}
\* the letters that str.lower() changes, and what it makes of them
UpperCase == "ABCDEFGHIJKLMNOPQRSTUVWXYZÀÁÂÃÄÅÆÇÈÉÊËÌÍÎÏÐÑÒÓÔÕÖØÙÚÛÜÝÞ"
LowerCase == "abcdefghijklmnopqrstuvwxyzàáâãäåæçèéêëìíîïðñòóôõöøùúûüýþ"
Letters == "ABCDEFGHIJKLMNOPQRSTUVWXYZabcdefghijklmnopqrstuvwxyz"
Digits == "0123456789"

Min(S) == CHOOSE i \in S : \A j \in S : i <= j
Max(S) == CHOOSE i \in S : \A j \in S : i >= j

\* str.lstrip(chars), str.rstrip(chars), str.strip(chars): the text without the
\* characters of the set at its left end, at its right end, at both ends
LStripChars(s, set) ==
    LET kept == {i \in 1 .. Len(s) : SubSeq(s, i, i) \notin set}
    IN  IF kept = {} THEN "" ELSE SubSeq(s, Min(kept), Len(s))
RStripChars(s, set) ==
    LET kept == {i \in 1 .. Len(s) : SubSeq(s, i, i) \notin set}
    IN  IF kept = {} THEN "" ELSE SubSeq(s, 1, Max(kept))
StripChars(s, set) == RStripChars(LStripChars(s, set), set)

\* str.strip()
Strip(s) == StripChars(s, Whitespace)

\* str.lower()
Lower(s) ==
    LET cs == Chars(s)
        low(c) == IF \E i \in 1 .. Len(UpperCase) : SubSeq(UpperCase, i, i) = c
                  THEN LET i == CHOOSE i \in 1 .. Len(UpperCase) : SubSeq(UpperCase, i, i) = c
                       IN  SubSeq(LowerCase, i, i)
                  ELSE c
    IN  Join([i \in 1 .. Len(s) |-> low(cs[i])], Len(s))

\* The conversions are computed once for the texts of the forms and looked up
\* afterwards; on any other text they are computed on the spot.
Normalized == [s \in FormTexts |-> Lower(Strip(s))]
Stripped == [s \in FormTexts |-> Strip(s)]

\* request.form.get("email", "").strip().lower()
Normalize(s) == IF s \in FormTexts THEN Normalized[s] ELSE Lower(Strip(s))

\* request.form.get("name", "").strip()
form_strip(s) == IF s \in FormTexts THEN Stripped[s] ELSE Strip(s)

\* werkzeug generate_password_hash / check_password_hash: a one-way digest that
\* only the password it was made from satisfies
generate_password_hash(p) == <<"hash", p>>
check_password_hash(h, p) == h = <<"hash", p>>

\* ---------------------------------------------------------------- float(text)
\* a digit part of a float literal: digits, with single underscores between digits
IsDigitPart(s) ==
    /\ Len(s) > 0
    /\ \A i \in 1 .. Len(s) : SubSeq(s, i, i) \in CharsOf(Digits) \cup {"_"}
    /\ SubSeq(s, 1, 1) # "_"
    /\ SubSeq(s, Len(s), Len(s)) # "_"
    /\ \A i \in 1 .. Len(s) - 1 : SubSeq(s, i, i + 1) # "__"

\* the digits of a digit part
DigitsOf(s) ==
    Join([i \in 1 .. Len(s) |-> IF SubSeq(s, i, i) = "_" THEN "" ELSE SubSeq(s, i, i)], Len(s))

\* int(s[1 .. n]) of a text of digits
RECURSIVE Decimal(_, _)
Decimal(s, n) ==
    IF n = 0 THEN 0
    ELSE Decimal(s, n - 1) * 10
         + (CHOOSE d \in 0 .. 9 : SubSeq(Digits, d + 1, d + 1) = SubSeq(s, n, n))

\* the longest mantissa (significant digits) and the largest exponent of ten that
\* the integers of the model hold
MaxDigits == 7
MaxUnits == 10 ^ 9
Abs(n) == IF n < 0 THEN -n ELSE n

NotANumber == [kind |-> "error", m |-> 0, e |-> 0]

\* float(text), read as Python reads it: white space off both ends, a sign, then inf,
\* infinity or nan in any case, or digit parts around an optional point followed by an
\* optional exponent.  kind is "error" where float() raises; "number" with float(text)
\* = m * 10^e (m without zeros at its right end); "nan"; "inf"; and "wide" for a
\* literal whose mantissa or exponent is beyond MaxDigits.
\* The sign at the head of a text, and the text behind it.
SignOf(s) == IF Len(s) > 0 /\ SubSeq(s, 1, 1) = "-" THEN -1 ELSE 1
Unsigned(s) == IF Len(s) > 0 /\ SubSeq(s, 1, 1) \in {"+", "-"} THEN SubSeq(s, 2, Len(s)) ELSE s

\* The text has a character of the set; the text before the first such character
\* (all of it when there is none) and the text after it.
Has(s, set) == \E i \in 1 .. Len(s) : SubSeq(s, i, i) \in set
Before(s, set) ==
    LET at == {i \in 1 .. Len(s) : SubSeq(s, i, i) \in set}
    IN  IF at = {} THEN s ELSE SubSeq(s, 1, Min(at) - 1)
After(s, set) ==
    LET at == {i \in 1 .. Len(s) : SubSeq(s, i, i) \in set}
    IN  IF at = {} THEN "" ELSE SubSeq(s, Min(at) + 1, Len(s))

\* the value of the digits all (none of them a zero at the left end), nfrac of which
\* stood behind the point, with the exponent esign * ten; sig is all without the
\* zeros at its right end
ReadNumber(sign, all, sig, nfrac, esign, ten) ==
    IF sig = "" THEN [kind |-> "number", m |-> 0, e |-> 0]
    ELSE IF Len(sig) > MaxDigits \/ Len(ten) > 1 THEN [kind |-> "wide", m |-> sign, e |-> 0]
    ELSE [kind |-> "number", m |-> sign * Decimal(sig, Len(sig)),
          e |-> esign * Decimal(ten, Len(ten)) - nfrac + (Len(all) - Len(sig))]

\* the value of the digits intd before and fracd behind the point, with the exponent
\* esign * ed
ReadDigits(sign, intd, fracd, esign, ed) ==
    ReadNumber(sign, LStripChars(intd \o fracd, {"0"}),
               RStripChars(LStripChars(intd \o fracd, {"0"}), {"0"}), Len(fracd),
               esign, LStripChars(ed, {"0"}))

\* the literal intp "." fracp "e" expo, the point and the exponent being optional
ReadParts(sign, intp, fracp, dotted, expo, exponent) ==
    IF /\ \/ IsDigitPart(intp) /\ (fracp = "" \/ IsDigitPart(fracp))
          \/ intp = "" /\ dotted /\ IsDigitPart(fracp)
       /\ ~exponent \/ IsDigitPart(Unsigned(expo))
    THEN ReadDigits(sign, DigitsOf(intp), DigitsOf(fracp), SignOf(expo),
                    DigitsOf(Unsigned(expo)))
    ELSE NotANumber

\* the literal without its sign
ReadBody(sign, body, mant) ==
    IF Lower(body) \in {"inf", "infinity"} THEN [kind |-> "inf", m |-> sign, e |-> 0]
    ELSE IF Lower(body) = "nan" THEN [kind |-> "nan", m |-> 0, e |-> 0]
    ELSE ReadParts(sign, Before(mant, {"."}), After(mant, {"."}), Has(mant, {"."}),
                   After(body, {"e", "E"}), Has(body, {"e", "E"}))

ReadSigned(s) == ReadBody(SignOf(s), Unsigned(s), Before(Unsigned(s), {"e", "E"}))

ParseFloat(text) == ReadSigned(StripChars(text, FloatSpace))

\* The literals of the forms are read once and looked up afterwards.
Floats == [a \in AmountTexts |-> ParseFloat(a)]
float(a) == IF a \in AmountTexts THEN Floats[a] ELSE ParseFloat(a)

\* float(text) does not raise
IsFloat(a) == float(a).kind # "error"

\* float(a) counted in units of 1/per is a whole number that the integers of the
\* model hold, and that number.  Dollars are counted in eighths and rates in whole
\* naira: such a value is a binary fraction, so the float is the value itself and
\* the product of the two is exact.  Naira amounts are counted in hundredths, the
\* precision of round(x, 2), the count h standing for the double nearest to h/100
\* (Naira, below).  A request with an amount or a rate outside these values (0.1
\* dollars, inf, nan, a literal beyond MaxDigits) is read by float() as the code reads
\* it, but the request is not followed beyond that.
HeldAs(p, per) ==
    /\ p.kind = "number"
    /\ p.e \in -9 .. 9
    /\ IF p.e >= 0
       THEN Abs(p.m * per) <= MaxUnits \div 10 ^ p.e
       ELSE (p.m * per) % 10 ^ (-p.e) = 0
UnitsOf(p, per) ==
    IF p.e >= 0 THEN p.m * per * 10 ^ p.e ELSE (p.m * per) \div 10 ^ (-p.e)
Held(a, per) == HeldAs(float(a), per)
Units(a, per) == UnitsOf(float(a), per)

\* float(text) of a dollar amount, in eighths of a dollar
usd_float(a) == Units(a, 8)
\* float(text) of a naira amount, in hundredths of a naira
ngn_float(a) == Units(a, 100)
\* float(text) of a rate, in NGN per USD
rate_float(a) == Units(a, 1)

\* n/d rounded to the nearest integer, ties to even (d > 0)
RoundHalfEven(n, d) ==
    LET q == n \div d
        r == n % d
    IN  IF 2 * r < d THEN q
        ELSE IF 2 * r > d THEN q + 1
        ELSE IF q % 2 = 0 THEN q ELSE q + 1

\* round(amount_usd_f * rate, 2): eighths of a dollar times NGN per USD, in hundredths
\* (amount_ngn_truncated: the digits after the second decimal cut off, not rounded)
amount_ngn_truncated(amount_usd, rate) == (amount_usd * rate * 100) \div 8
amount_ngn_of(amount_usd, rate) == RoundHalfEven(amount_usd * rate * 100, 8)

\* the largest amount, in naira, that a trade or a withdrawal of the model carries
MaxNaira == 1000000
\* amount_usd_f * rate is within MaxNaira
Priced(amount_usd, rate) ==
    IF rate = 0 THEN TRUE ELSE Abs(amount_usd) <= (MaxNaira * 8) \div Abs(rate)

\* the rate rows that init_db inserts
DefaultRates ==
    << [method |-> "Bitcoin", rate_ngn_per_usd |-> 1400000, tag |-> "Send BTC to wallet: 1PayBTCxyz", status |-> "active"],
       [method |-> "CashApp", rate_ngn_per_usd |-> 1400, tag |-> "CashApp tag: $PayWaveCash", status |-> "active"],
       [method |-> "Zelle", rate_ngn_per_usd |-> 1400, tag |-> "Zelle to: paywave@zellebank.com", status |-> "active"],
       [method |-> "PayPal", rate_ngn_per_usd |-> 1400, tag |-> "PayPal: payments@paywave.com", status |-> "active"] >>

\* ---------------------------------------------------------------- REAL
\* users.balance_ngn is a REAL column: SQLite keeps an IEEE 754 double in it, and
\* balance_ngn + ?, balance_ngn - ? and the comparisons of Python are the arithmetic
\* of doubles.  A double is held as its sign and its magnitude, [neg, mag], the
\* magnitude being a whole number of 2^-UlpBits naira: every double from 0.01 upwards
\* is such a number, and so is every sum and difference of such doubles.  The whole
\* number is written with Limbs digits of base Base, the lowest first, so that the
\* digits 1 to 4 are the fraction of a naira and the digits 5 and 6 the whole naira.
Base == 32768
Limbs == 6
UlpBits == 60
\* the bits of the significand of a double
Mantissa == 53

\* a whole number below 2^31 as a magnitude
MagOf(n) == [i \in 1 .. Limbs |-> IF i <= 3 THEN (n \div Base ^ (i - 1)) % Base ELSE 0]

\* a + b: a digit takes a carry when a digit below it overflows and every digit
\* between the two passes the carry on
MagAdd(a, b) ==
    [i \in 1 .. Limbs |->
        (a[i] + b[i]
         + (IF \E j \in 1 .. i - 1 : /\ a[j] + b[j] >= Base
                                      /\ \A k \in j + 1 .. i - 1 : a[k] + b[k] = Base - 1
            THEN 1 ELSE 0)) % Base]

\* a - b, for a >= b: a digit lends when a digit below it falls short and every digit
\* between the two is level
MagSub(a, b) ==
    [i \in 1 .. Limbs |->
        (a[i] - b[i] + Base
         - (IF \E j \in 1 .. i - 1 : /\ a[j] < b[j]
                                      /\ \A k \in j + 1 .. i - 1 : a[k] = b[k]
            THEN 1 ELSE 0)) % Base]

\* a < b
MagLess(a, b) == \E i \in 1 .. Limbs : a[i] < b[i] /\ \A j \in i + 1 .. Limbs : a[j] = b[j]

\* a * 2^n
MagShift(a, n) ==
    [i \in 1 .. Limbs |->
        IF i <= n \div 15 THEN 0
        ELSE ((a[i - (n \div 15)] * 2 ^ (n % 15)) % Base)
             + (IF i - (n \div 15) > 1
                THEN (a[i - (n \div 15) - 1] * 2 ^ (n % 15)) \div Base ELSE 0)]

\* a \div d, for d <= Base; RemainderFrom(a, d, i) is what the digits from i upwards
\* leave, and RemainderFrom(a, d, 1) is a % d
RECURSIVE RemainderFrom(_, _, _)
RemainderFrom(a, d, i) ==
    IF i > Limbs THEN 0 ELSE (RemainderFrom(a, d, i + 1) * Base + a[i]) % d
MagDiv(a, d) == [i \in 1 .. Limbs |-> (RemainderFrom(a, d, i + 1) * Base + a[i]) \div d]

\* bit n of a, the lowest being bit 0
Bit(a, n) == (a[(n \div 15) + 1] \div 2 ^ (n % 15)) % 2
\* the number of bits of a: those of its highest digit that is not 0, and 15 for
\* each digit below it
BitLength(a) ==
    IF a = MagOf(0) THEN 0
    ELSE LET top == CHOOSE i \in 1 .. Limbs : a[i] # 0 /\ \A j \in i + 1 .. Limbs : a[j] = 0
         IN  15 * (top - 1) + CHOOSE n \in 1 .. 15 : 2 ^ (n - 1) <= a[top] /\ a[top] < 2 ^ n

\* a with its lowest n bits cleared
Truncated(a, n) ==
    [i \in 1 .. Limbs |-> IF i <= n \div 15 THEN 0
                          ELSE IF i = (n \div 15) + 1 THEN a[i] - (a[i] % 2 ^ (n % 15))
                          ELSE a[i]]

\* The magnitude of the double nearest to an exact value, of which a is the whole
\* part, more saying that the exact value has a fraction beyond it.  Mantissa bits are
\* kept: the result is the whole multiple of 2^n nearest to the exact value, n being
\* the number of bits beyond them, and the even one of two that are equally near.
Nearest(a, more) ==
    LET n == BitLength(a) - Mantissa
    IN  IF n <= 0 THEN a
        ELSE IF /\ Bit(a, n - 1) = 1
                /\ more \/ Bit(a, n) = 1 \/ Truncated(a, n - 1) # a
        THEN MagAdd(Truncated(a, n), MagShift(MagOf(1), n))
        ELSE Truncated(a, n)

\* the double nearest to h hundredths of a naira: the double that Python's float()
\* makes of a literal with two decimals, and that round(x, 2) returns
NearestNaira(h) ==
    LET shifted == MagShift(MagOf(Abs(h)), UlpBits)
    IN  [neg |-> h < 0,
         mag |-> Nearest(MagDiv(shifted, 100), RemainderFrom(shifted, 100, 1) # 0)]

\* The amounts that the forms lead to are converted once and looked up afterwards:
\* the amounts of the forms as naira, and as dollars at the rates of init_db and of
\* the forms.
FormAmounts ==
    LET form_rates == {DefaultRates[k].rate_ngn_per_usd : k \in 1 .. Len(DefaultRates)}
                      \cup {rate_float(a) : a \in {a \in AmountTexts : Held(a, 1)}}
        form_dollars == {usd_float(a) : a \in {a \in AmountTexts : Held(a, 8)}}
    IN  {0}
        \cup {ngn_float(a) : a \in {a \in AmountTexts : Held(a, 100)}}
        \cup {amount_ngn_of(p[1], p[2]) :
                  p \in {p \in form_dollars \X form_rates : Priced(p[1], p[2])}}
Nairas == [h \in FormAmounts |-> NearestNaira(h)]
Naira(h) == IF h \in FormAmounts THEN Nairas[h] ELSE NearestNaira(h)

\* x + y of two doubles
Plus(x, y) ==
    IF x.neg = y.neg THEN [neg |-> x.neg, mag |-> Nearest(MagAdd(x.mag, y.mag), FALSE)]
    ELSE IF x.mag = y.mag THEN Naira(0)
    ELSE IF MagLess(x.mag, y.mag)
    THEN [neg |-> y.neg, mag |-> Nearest(MagSub(y.mag, x.mag), FALSE)]
    ELSE [neg |-> x.neg, mag |-> Nearest(MagSub(x.mag, y.mag), FALSE)]

\* x - y, which is x + (-y)
Minus(x, y) == Plus(x, IF y.mag = MagOf(0) THEN y ELSE [y EXCEPT !.neg = ~@])
\* x < y
Less(x, y) ==
    IF x.neg # y.neg THEN x.neg
    ELSE IF x.neg THEN MagLess(y.mag, x.mag) ELSE MagLess(x.mag, y.mag)

\* '.' in filename
HasDot(filename) == "." \in CharsOf(filename)

\* filename.rsplit('.', 1)[1]: what follows the last dot
Ext(filename) ==
    LET cs == Chars(filename)
        dot == CHOOSE i \in 1 .. Len(filename) :
                  cs[i] = "." /\ \A j \in i + 1 .. Len(filename) : cs[j] # "."
    IN  SubSeq(filename, dot + 1, Len(filename))

ALLOWED_EXT == {"png", "jpg", "jpeg", "gif", "pdf"}

HasAllowedExt(filename) == HasDot(filename) /\ Lower(Ext(filename)) \in ALLOWED_EXT
AllowedFiles == {s \in FormTexts : HasAllowedExt(s)}

allowed_file(filename) ==
    IF filename \in FormTexts THEN filename \in AllowedFiles ELSE HasAllowedExt(filename)

\* int(time.time()) at the moment a file is stored
Clock == {1700000000, 1700000001}

\* werkzeug's secure_filename.  unicodedata.normalize("NFKD", filename) encoded to
\* ASCII with the characters that have no ASCII form ignored: each character above
\* U+007F becomes the ASCII text of its decomposition (the first text of a pair of
\* AsciiForms, for the characters of the second) or is left out
AsciiForms ==
    << <<" ", " ¨¯´¸">>,
       <<"1", "¹">>,
       <<"12", "½">>,
       <<"14", "¼">>,
       <<"2", "²">>,
       <<"3", "³">>,
       <<"34", "¾">>,
       <<"A", "ÀÁÂÃÄÅ">>,
       <<"C", "Ç">>,
       <<"E", "ÈÉÊË">>,
       <<"I", "ÌÍÎÏ">>,
       <<"N", "Ñ">>,
       <<"O", "ÒÓÔÕÖ">>,
       <<"U", "ÙÚÛÜ">>,
       <<"Y", "Ý">>,
       <<"a", "ªàáâãäå">>,
       <<"c", "ç">>,
       <<"e", "èéêë">>,
       <<"i", "ìíîï">>,
       <<"n", "ñ">>,
       <<"o", "ºòóôõö">>,
       <<"u", "ùúûü">>,
       <<"y", "ýÿ">> >>
ascii_ignore(c) ==
    IF \E k \in 1 .. Len(AsciiForms) : c \in CharsOf(AsciiForms[k][2])
    THEN AsciiForms[CHOOSE k \in 1 .. Len(AsciiForms) : c \in CharsOf(AsciiForms[k][2])][1]
    ELSE IF c \in CharsOf("¡¢£¤¥¦§©«¬­®°±µ¶·»¿ÆÐ×ØÞßæð÷øþ") THEN ""
    ELSE c

\* then the path separator becomes a blank, the words between white space are joined
\* by "_", every character that is no letter, digit, "_", "." or "-" is dropped, and
\* dots and underscores are taken off the ends
secure_filename(filename) ==
    LET ascii == Join([i \in 1 .. Len(filename) |-> ascii_ignore(SubSeq(filename, i, i))],
                      Len(filename))
        n == Len(ascii)
        cs == [i \in 1 .. n |-> IF SubSeq(ascii, i, i) = "/" THEN " " ELSE SubSeq(ascii, i, i)]
        word == CharsOf(Letters) \cup CharsOf(Digits) \cup {"_", ".", "-"}
        joined == [i \in 1 .. n |->
                     IF cs[i] \notin Whitespace THEN cs[i]
                     ELSE IF /\ i > 1
                             /\ cs[i - 1] \notin Whitespace
                             /\ \E j \in i + 1 .. n : cs[j] \notin Whitespace
                          THEN "_" ELSE ""]
        kept == [i \in 1 .. n |-> IF joined[i] \in word THEN joined[i] ELSE ""]
    IN  StripChars(Join(kept, n), {".", "_"})

\* secure_filename(f"{session['user_id']}_{int(time.time())}_{file.filename}")
StoredName(user_id, now, filename) ==
    secure_filename(ToString(user_id) \o "_" \o ToString(now) \o "_" \o filename)
StoredNames ==
    [u \in 1 .. MaxUsers, now \in Clock, f \in AllowedFiles |-> StoredName(u, now, f)]

proof_name(user_id, now, filename) ==
    IF <<user_id, now, filename>> \in DOMAIN StoredNames
    THEN StoredNames[user_id, now, filename] ELSE StoredName(user_id, now, filename)

\* file and file.filename: the request carries a file part, and it has a name
HasFile(proof) == proof # None /\ The(proof) # ""

Ids(table) == 1 .. Len(table)

\* SELECT ... FROM users WHERE email=?
UserByEmail(email) == {i \in Ids(users) : users[i].email = email}
\* SELECT ... FROM rates WHERE method=?
RateByMethod(method) == {i \in Ids(rates) : rates[i].method = method}

\* session.get("role") != "admin" fails: the caller's cookie carries the admin role
\* (RoleIsAdminAlways: the check left out)
RoleIsAdminAlways == TRUE
RoleIsAdmin == session.role = Some("admin")

\* t and t["status"] == "Pending"
TradePending(tid) == tid \in Ids(trades) /\ trades[tid].status = "Pending"

\* w and w["status"] == "Pending"
WithdrawPending(wid) == wid \in Ids(withdrawals) /\ withdrawals[wid].status = "Pending"

\* user and user["balance_ngn"] >= w["amount_ngn"]  (SufficientNoRecheck: the balance
\* not compared)
SufficientNoRecheck(user_id, amount_ngn) == user_id \in Ids(users)
Sufficient(user_id, amount_ngn) ==
    user_id \in Ids(users) /\ ~Less(users[user_id].balance_ngn, Naira(amount_ngn))

\* amount_ngn_f > user["balance_ngn"]  (InsufficientNever: the balance not compared)
InsufficientNever(amount_ngn_f, user_id) == FALSE
Insufficient(amount_ngn_f, user_id) ==
    Less(users[user_id].balance_ngn, Naira(amount_ngn_f))

Respond(h, r, f) == response' = [handler |-> h, redirect |-> r, flash |-> f]

\* sqlite3.connect(DB) waits 5 seconds for the write lock.  A statement that writes
\* while another connection keeps its transaction open that long raises
\* sqlite3.OperationalError (database is locked), and the request that does not
\* catch it is answered with a server error; a request whose wait ends with the other
\* transaction's commit goes on as if it had come after it.
db_error(h) == Respond(h, "", "sqlite3.OperationalError")

\* ---------------------------------------------------------------- init_db
NoTxn == [owner |-> 0, users |-> <<>>, rates |-> <<>>, trades |-> <<>>, withdrawals |-> <<>>]
\* the transaction that worker w opens with its first writing statement
Begin(w) == [owner |-> w, users |-> users, rates |-> rates, trades |-> trades,
             withdrawals |-> withdrawals]
NoForm == [i \in 1 .. 4 |-> NoFields]
Idle == [pc |-> "idle", id |-> 0, amount_ngn |-> 0, user_id |-> 0, email |-> "", password |-> "",
         method |-> "", amount_usd |-> 0, proof |-> None, form |-> NoForm]

Init ==
    /\ users = << [email |-> "admin@paywave.com",
                   password |-> generate_password_hash("admin123"),
                   balance_ngn |-> Naira(0), role |-> "admin"] >>
    /\ rates = DefaultRates
    /\ trades = <<>>
    /\ withdrawals = <<>>
    /\ session = [user_id |-> 0, role |-> None]
    /\ response = [handler |-> "", redirect |-> "", flash |-> ""]
    /\ credited = [i \in 1 .. MaxTrades |-> 0]
    /\ debited = [i \in 1 .. MaxWithdrawals |-> 0]
    /\ req = [w \in Workers |-> Idle]
    /\ txn = NoTxn

\* ---------------------------------------------------------------- register
register(email_in, password) ==
    LET email == Normalize(email_in) IN
    /\ UNCHANGED <<rates, trades, withdrawals, session, credited, debited, req, txn>>
    /\ IF email = "" \/ password = ""
       THEN /\ Respond("register", "register", "Email and password required")
            /\ UNCHANGED users
       ELSE IF UserByEmail(email) # {}
       THEN /\ Respond("register", "register", "Email already registered")
            /\ UNCHANGED users
       ELSE IF txn.owner # 0
       THEN db_error("register") /\ UNCHANGED users
       ELSE /\ Len(users) < MaxUsers
            /\ users' = Append(users, [email |-> email,
                                       password |-> generate_password_hash(password),
                                       balance_ngn |-> Naira(0), role |-> "user"])
            /\ Respond("register", "login", "Registration successful - please login")

\* ---------------------------------------------------------------- login / logout
login(email_in, password) ==
    LET email == Normalize(email_in)
        found == UserByEmail(email)
    IN
    /\ UNCHANGED <<store, credited, debited, req, txn>>
    /\ IF \E i \in found : check_password_hash(users[i].password, password)
       THEN LET i == CHOOSE i \in found : check_password_hash(users[i].password, password) IN
            /\ session' = [user_id |-> i, role |-> Some(users[i].role)]
            /\ Respond("login", IF users[i].role = "admin" THEN "admin" ELSE "dashboard",
                       "Logged in")
       ELSE /\ UNCHANGED session
            /\ Respond("login", "", "Invalid credentials")

logout ==
    /\ session' = [user_id |-> 0, role |-> None]
    /\ Respond("logout", "login", "")
    /\ UNCHANGED <<store, credited, debited, req, txn>>

\* ---------------------------------------------------------------- deposit
deposit(method, amount_usd, proof) ==
    /\ UNCHANGED <<users, rates, withdrawals, session, credited, debited, req, txn>>
    /\ IF session.user_id = 0
       THEN Respond("deposit", "login", "") /\ UNCHANGED trades
       ELSE IF ~IsFloat(amount_usd)
       THEN Respond("deposit", "dashboard", "Enter a valid USD amount") /\ UNCHANGED trades
       ELSE IF RateByMethod(method) = {}
       THEN Respond("deposit", "dashboard", "Invalid method") /\ UNCHANGED trades
       ELSE IF HasFile(proof) /\ ~allowed_file(The(proof))
       THEN Respond("deposit", "dashboard", "File type not allowed") /\ UNCHANGED trades
       ELSE IF txn.owner # 0
       THEN db_error("deposit") /\ UNCHANGED trades
       ELSE \E now \in Clock :
            LET r == rates[CHOOSE i \in RateByMethod(method) : TRUE]
                amount_usd_f == usd_float(amount_usd)
                filename == IF HasFile(proof)
                            THEN Some(proof_name(session.user_id, now, The(proof)))
                            ELSE None
            IN
            /\ Len(trades) < MaxTrades
            /\ Held(amount_usd, 8)
            /\ Priced(amount_usd_f, r.rate_ngn_per_usd)
            /\ trades' = Append(trades,
                   [user_id |-> session.user_id, method |-> method,
                    amount_usd |-> amount_usd_f,
                    amount_ngn |-> amount_ngn_of(amount_usd_f, r.rate_ngn_per_usd),
                    proof |-> filename, status |-> "Pending"])
            /\ Respond("deposit", "dashboard", "Trade submitted - status: Pending")

\* ---------------------------------------------------------------- withdraw
withdraw(name_in, bank_in, account_in, amount_ngn) ==
    /\ UNCHANGED <<users, rates, trades, session, credited, debited, req, txn>>
    /\ IF session.user_id = 0
       THEN Respond("withdraw", "login", "") /\ UNCHANGED withdrawals
       ELSE IF ~IsFloat(amount_ngn)
       THEN Respond("withdraw", "dashboard", "Enter valid amount") /\ UNCHANGED withdrawals
       ELSE IF "" \in {form_strip(name_in), form_strip(bank_in), form_strip(account_in)}
       THEN Respond("withdraw", "dashboard", "Fill all withdrawal fields")
            /\ UNCHANGED withdrawals
       ELSE IF session.user_id \notin Ids(users)
       THEN Respond("withdraw", "login", "User not found") /\ UNCHANGED withdrawals
       ELSE /\ Held(amount_ngn, 100)
            /\ IF Insufficient(ngn_float(amount_ngn), session.user_id)
               THEN Respond("withdraw", "dashboard", "Insufficient balance for this withdrawal.")
                    /\ UNCHANGED withdrawals
               ELSE IF txn.owner # 0
               THEN db_error("withdraw") /\ UNCHANGED withdrawals
               ELSE /\ Len(withdrawals) < MaxWithdrawals
                    /\ Abs(ngn_float(amount_ngn)) <= MaxNaira * 100
                    /\ withdrawals' = Append(withdrawals,
                           [user_id |-> session.user_id,
                            amount_ngn |-> ngn_float(amount_ngn), status |-> "Pending"])
                    /\ Respond("withdraw", "dashboard", "Withdrawal requested - Pending")

\* ---------------------------------------------------------------- admin (POST)
\* lines 290-292: the form carries a rate that is no empty text and that float() reads
RateGiven(f) == f.rate # None /\ The(f.rate) # "" /\ IsFloat(The(f.rate))
\* line 295
TagGiven(f) == f.tag # None
\* line 297
StatusGiven(f) == f.status \in {Some("active"), Some("locked")}

\* one pass of the loop body over rate row r with the form's fields f
\* (UpdateRateOverwrites: tag and status written from the form whether supplied or
\* not, as empty texts when they are not)
UpdateRateOverwrites(r, f) ==
    LET r1 == IF RateGiven(f)
              THEN [r EXCEPT !.rate_ngn_per_usd = rate_float(The(f.rate))] ELSE r
    IN  [r1 EXCEPT !.tag = IF f.tag # None THEN The(f.tag) ELSE "",
                   !.status = IF f.status # None THEN The(f.status) ELSE ""]

UpdateRate(r, f) ==
    LET r1 == IF RateGiven(f)
              THEN [r EXCEPT !.rate_ngn_per_usd = rate_float(The(f.rate))] ELSE r
        r2 == IF TagGiven(f) THEN [r1 EXCEPT !.tag = The(f.tag)] ELSE r1
    IN  IF StatusGiven(f) THEN [r2 EXCEPT !.status = The(f.status)] ELSE r2

\* every rate that the form gives is a whole number of NGN per USD within MaxNaira
FormHeld(form) ==
    \A i \in DOMAIN form :
        RateGiven(form[i])
           => Held(The(form[i].rate), 1) /\ Abs(rate_float(The(form[i].rate))) <= MaxNaira

\* The UPDATE statements of the loop are numbered in the order the handler reaches
\* them: statement n is about the rate row StmtRow(n) and its column StmtField(n).
Fields == <<"rate", "tag", "status">>
LastStmt == 3 * Len(DefaultRates)
StmtRow(n) == ((n - 1) \div 3) + 1
StmtField(n) == Fields[((n - 1) % 3) + 1]

\* the handler executes statement n for the form
Runs(form, n) ==
    LET f == form[StmtRow(n)] IN
    CASE StmtField(n) = "rate" -> RateGiven(f)
      [] StmtField(n) = "tag" -> TagGiven(f)
      [] StmtField(n) = "status" -> StatusGiven(f)

\* the first statement from n on that the handler executes, LastStmt + 1 when none
NextStmt(form, n) ==
    LET later == {m \in n .. LastStmt : Runs(form, m)}
    IN  IF later = {} THEN LastStmt + 1 ELSE Min(later)

\* the fields of f with all but one left out
Only(f, field) == [NoFields EXCEPT ![field] = f[field]]

\* a rate update that also re-prices the trades already submitted at the new rates
admin_reprices(form) ==
    /\ RoleIsAdmin
    /\ rates' = [i \in Ids(rates) |-> UpdateRate(rates[i], form[i])]
    /\ trades' = [i \in Ids(trades) |->
                     [trades[i] EXCEPT !.amount_ngn =
                         amount_ngn_of(trades[i].amount_usd,
                             rates'[CHOOSE k \in RateByMethod(trades[i].method) : TRUE]
                                 .rate_ngn_per_usd)]]
    /\ Respond("admin", "admin", "Rates & tags updated")
    /\ UNCHANGED <<users, withdrawals, session, credited, debited, req, txn>>

\* While another request keeps its transaction open, every UPDATE of the rate column
\* fails inside the try and is passed over (lines 291-294), and the first UPDATE of a
\* tag or a status ends the request.
admin(form) ==
    /\ UNCHANGED <<users, trades, withdrawals, session, credited, debited, req, txn>>
    /\ IF ~RoleIsAdmin
       THEN Respond("admin", "login", "Admin access required") /\ UNCHANGED rates
       ELSE /\ FormHeld(form)
            /\ IF txn.owner = 0
               THEN /\ rates' = [i \in Ids(rates) |-> UpdateRate(rates[i], form[i])]
                    /\ Respond("admin", "admin", "Rates & tags updated")
               ELSE IF \E n \in 1 .. LastStmt : Runs(form, n) /\ StmtField(n) # "rate"
               THEN db_error("admin") /\ UNCHANGED rates
               ELSE Respond("admin", "admin", "Rates & tags updated") /\ UNCHANGED rates

\* ---------------------------------------------------------------- approve / reject trade
approve_trade(tid) ==
    /\ UNCHANGED <<rates, withdrawals, session, debited, req, txn>>
    /\ IF ~RoleIsAdmin
       THEN Respond("approve_trade", "login", "")
            /\ UNCHANGED <<users, trades, credited>>
       ELSE IF TradePending(tid) /\ txn.owner # 0
       THEN db_error("approve_trade") /\ UNCHANGED <<users, trades, credited>>
       ELSE IF TradePending(tid)
       THEN LET t == trades[tid] IN
            /\ trades' = [trades EXCEPT ![tid].status = "Approved"]
            /\ users' = [users EXCEPT ![t.user_id].balance_ngn = Plus(@, Naira(t.amount_ngn))]
            /\ credited' = [credited EXCEPT ![tid] = @ + 1]
            /\ Respond("approve_trade", "admin", "Trade approved and user credited")
       ELSE Respond("approve_trade", "admin", "")
            /\ UNCHANGED <<users, trades, credited>>

reject_trade(tid) ==
    /\ UNCHANGED <<users, rates, withdrawals, session, credited, debited, req, txn>>
    /\ IF ~RoleIsAdmin
       THEN Respond("reject_trade", "login", "") /\ UNCHANGED trades
       ELSE IF txn.owner # 0
       THEN db_error("reject_trade") /\ UNCHANGED trades
       ELSE /\ trades' = [i \in Ids(trades) |->
                             IF i = tid THEN [trades[i] EXCEPT !.status = "Rejected"]
                             ELSE trades[i]]
            /\ Respond("reject_trade", "admin", "Trade rejected")

\* ---------------------------------------------------------------- approve / reject withdraw
approve_withdraw(wid) ==
    /\ UNCHANGED <<rates, trades, session, credited, req, txn>>
    /\ IF ~RoleIsAdmin
       THEN Respond("approve_withdraw", "login", "")
            /\ UNCHANGED <<users, withdrawals, debited>>
       ELSE IF WithdrawPending(wid) /\ txn.owner # 0
       THEN db_error("approve_withdraw") /\ UNCHANGED <<users, withdrawals, debited>>
       ELSE IF WithdrawPending(wid)
       THEN LET w == withdrawals[wid] IN
            /\ IF Sufficient(w.user_id, w.amount_ngn)
               THEN /\ withdrawals' = [withdrawals EXCEPT ![wid].status = "Approved"]
                    /\ users' = [users EXCEPT ![w.user_id].balance_ngn =
                                                    Minus(@, Naira(w.amount_ngn))]
                    /\ debited' = [debited EXCEPT ![wid] = @ + 1]
                    /\ Respond("approve_withdraw", "admin",
                               "Withdrawal approved and balance updated")
               ELSE /\ withdrawals' = [withdrawals EXCEPT ![wid].status = "Rejected"]
                    /\ UNCHANGED <<users, debited>>
                    /\ Respond("approve_withdraw", "admin",
                               "Cannot approve - user has insufficient balance. Withdrawal rejected.")
       ELSE Respond("approve_withdraw", "admin", "")
            /\ UNCHANGED <<users, withdrawals, debited>>

\* a reject that hands the amount back to the owner
reject_withdraw_refunds(wid) ==
    /\ RoleIsAdmin
    /\ wid \in Ids(withdrawals)
    /\ withdrawals' = [withdrawals EXCEPT ![wid].status = "Rejected"]
    /\ users' = [users EXCEPT ![withdrawals[wid].user_id].balance_ngn =
                                  Plus(@, Naira(withdrawals[wid].amount_ngn))]
    /\ Respond("reject_withdraw", "admin", "Withdrawal rejected")
    /\ UNCHANGED <<rates, trades, session, credited, debited, req, txn>>

reject_withdraw(wid) ==
    /\ UNCHANGED <<users, rates, trades, session, credited, debited, req, txn>>
    /\ IF ~RoleIsAdmin
       THEN Respond("reject_withdraw", "login", "") /\ UNCHANGED withdrawals
       ELSE IF txn.owner # 0
       THEN db_error("reject_withdraw") /\ UNCHANGED withdrawals
       ELSE /\ withdrawals' = [i \in Ids(withdrawals) |->
                                  IF i = wid THEN [withdrawals[i] EXCEPT !.status = "Rejected"]
                                  ELSE withdrawals[i]]
            /\ Respond("reject_withdraw", "admin", "Withdrawal rejected")

\* ---------------------------------------------------------------- concurrent requests
\* app.run serves requests side by side, and each request runs on its own connection
\* (get_db opens one per request context).  A SELECT reads the committed store and
\* holds no lock afterwards.  The first UPDATE or INSERT of a request opens its write
\* transaction, which SQLite grants to one connection at a time; the transaction's
\* writes reach the committed store at db.commit(), together, and are dropped if the
\* request dies before it.
\*
\* Every handler that writes the store is therefore modelled twice: by the action above that
\* bears its name, which is the request served with no other request's statement
\* falling between its own, and by the steps below, which follow one request of a
\* worker statement by statement while other requests are served.  A request served
\* whole while a worker keeps its transaction open is the one that waits for the lock
\* in vain.  Reads of the committed store commute with each other and write
\* transactions exclude each other, so every interleaving of two requests is a run of
\* one worker's steps with whole requests between them, but for a rate update that
\* passes over a statement while another request keeps the lock and goes on after that
\* request's commit: the specifications with rate updates that write rates follow the
\* rate update on the second worker, beside the first worker's request, and NextConc
\* and NextReg follow two workers throughout.

\* approve_trade, lines 322-326: the role check and SELECT * FROM trades WHERE id=?
at_select(w, tid) ==
    /\ req[w].pc = "idle"
    /\ UNCHANGED <<store, session, credited, debited, txn>>
    /\ IF ~RoleIsAdmin
       THEN Respond("approve_trade", "login", "") /\ UNCHANGED req
       ELSE IF TradePending(tid)
       THEN /\ req' = [req EXCEPT ![w] = [Idle EXCEPT !.pc = "at_status", !.id = tid,
                                             !.amount_ngn = trades[tid].amount_ngn,
                                             !.user_id = trades[tid].user_id]]
            /\ UNCHANGED response
       ELSE Respond("approve_trade", "admin", "") /\ UNCHANGED req

\* line 327: UPDATE trades SET status='Approved' WHERE id=?
at_update_status(w) ==
    /\ req[w].pc = "at_status"
    /\ txn.owner = 0
    /\ txn' = [Begin(w) EXCEPT !.trades[req[w].id].status = "Approved"]
    /\ req' = [req EXCEPT ![w].pc = "at_balance"]
    /\ UNCHANGED <<store, session, response, credited, debited>>

\* line 328: UPDATE users SET balance_ngn = balance_ngn + ? WHERE id=?
at_update_balance(w) ==
    /\ req[w].pc = "at_balance"
    /\ txn.owner = w
    /\ txn' = [txn EXCEPT !.users[req[w].user_id].balance_ngn =
                            Plus(@, Naira(req[w].amount_ngn))]
    /\ req' = [req EXCEPT ![w].pc = "at_commit"]
    /\ UNCHANGED <<store, session, response, credited, debited>>

\* lines 329-331: db.commit()
at_commit(w) ==
    /\ req[w].pc = "at_commit"
    /\ txn.owner = w
    /\ users' = txn.users
    /\ trades' = txn.trades
    /\ credited' = [credited EXCEPT ![req[w].id] = @ + 1]
    /\ txn' = NoTxn
    /\ req' = [req EXCEPT ![w] = Idle]
    /\ Respond("approve_trade", "admin", "Trade approved and user credited")
    /\ UNCHANGED <<rates, withdrawals, session, debited>>

\* approve_withdraw, lines 346-350: the role check and SELECT * FROM withdrawals WHERE id=?
aw_select(w, wid) ==
    /\ req[w].pc = "idle"
    /\ UNCHANGED <<store, session, credited, debited, txn>>
    /\ IF ~RoleIsAdmin
       THEN Respond("approve_withdraw", "login", "") /\ UNCHANGED req
       ELSE IF WithdrawPending(wid)
       THEN /\ req' = [req EXCEPT ![w] = [Idle EXCEPT !.pc = "aw_check", !.id = wid,
                                             !.amount_ngn = withdrawals[wid].amount_ngn,
                                             !.user_id = withdrawals[wid].user_id]]
            /\ UNCHANGED response
       ELSE Respond("approve_withdraw", "admin", "") /\ UNCHANGED req

\* lines 351-352: SELECT balance_ngn FROM users WHERE id=? and the re-check
aw_check(w) ==
    /\ req[w].pc = "aw_check"
    /\ req' = [req EXCEPT ![w].pc =
                  IF Sufficient(req[w].user_id, req[w].amount_ngn)
                  THEN "aw_status" ELSE "aw_reject"]
    /\ UNCHANGED <<store, session, response, credited, debited, txn>>

\* line 353: UPDATE withdrawals SET status='Approved' WHERE id=?
aw_update_status(w) ==
    /\ req[w].pc = "aw_status"
    /\ txn.owner = 0
    /\ txn' = [Begin(w) EXCEPT !.withdrawals[req[w].id].status = "Approved"]
    /\ req' = [req EXCEPT ![w].pc = "aw_balance"]
    /\ UNCHANGED <<store, session, response, credited, debited>>

\* line 354: UPDATE users SET balance_ngn = balance_ngn - ? WHERE id=?
aw_update_balance(w) ==
    /\ req[w].pc = "aw_balance"
    /\ txn.owner = w
    /\ txn' = [txn EXCEPT !.users[req[w].user_id].balance_ngn =
                            Minus(@, Naira(req[w].amount_ngn))]
    /\ req' = [req EXCEPT ![w].pc = "aw_commit"]
    /\ UNCHANGED <<store, session, response, credited, debited>>

\* lines 355-356: db.commit()
aw_commit(w) ==
    /\ req[w].pc = "aw_commit"
    /\ txn.owner = w
    /\ users' = txn.users
    /\ withdrawals' = txn.withdrawals
    /\ debited' = [debited EXCEPT ![req[w].id] = @ + 1]
    /\ txn' = NoTxn
    /\ req' = [req EXCEPT ![w] = Idle]
    /\ Respond("approve_withdraw", "admin", "Withdrawal approved and balance updated")
    /\ UNCHANGED <<rates, trades, session, credited>>

\* line 358: UPDATE withdrawals SET status='Rejected' WHERE id=?
aw_reject(w) ==
    /\ req[w].pc = "aw_reject"
    /\ txn.owner = 0
    /\ txn' = [Begin(w) EXCEPT !.withdrawals[req[w].id].status = "Rejected"]
    /\ req' = [req EXCEPT ![w].pc = "aw_reject_commit"]
    /\ UNCHANGED <<store, session, response, credited, debited>>

\* lines 359-360: db.commit()
aw_reject_commit(w) ==
    /\ req[w].pc = "aw_reject_commit"
    /\ txn.owner = w
    /\ withdrawals' = txn.withdrawals
    /\ txn' = NoTxn
    /\ req' = [req EXCEPT ![w] = Idle]
    /\ Respond("approve_withdraw", "admin",
               "Cannot approve - user has insufficient balance. Withdrawal rejected.")
    /\ UNCHANGED <<users, rates, trades, session, credited, debited>>

\* reject_trade, lines 335-338: the role check and UPDATE trades SET
\* status='Rejected' WHERE id=?, which opens the write transaction whether a row has
\* the id or not
rt_update(w, tid) ==
    /\ req[w].pc = "idle"
    /\ UNCHANGED <<store, session, credited, debited>>
    /\ IF ~RoleIsAdmin
       THEN Respond("reject_trade", "login", "") /\ UNCHANGED <<req, txn>>
       ELSE /\ txn.owner = 0
            /\ txn' = [Begin(w) EXCEPT !.trades =
                          [i \in Ids(trades) |->
                              IF i = tid THEN [trades[i] EXCEPT !.status = "Rejected"]
                              ELSE trades[i]]]
            /\ req' = [req EXCEPT ![w] = [Idle EXCEPT !.pc = "rt_commit", !.id = tid]]
            /\ UNCHANGED response

\* lines 339-341: db.commit()
rt_commit(w) ==
    /\ req[w].pc = "rt_commit"
    /\ txn.owner = w
    /\ trades' = txn.trades
    /\ txn' = NoTxn
    /\ req' = [req EXCEPT ![w] = Idle]
    /\ Respond("reject_trade", "admin", "Trade rejected")
    /\ UNCHANGED <<users, rates, withdrawals, session, credited, debited>>

\* reject_withdraw, lines 365-368: the role check and UPDATE withdrawals SET
\* status='Rejected' WHERE id=?
rw_update(w, wid) ==
    /\ req[w].pc = "idle"
    /\ UNCHANGED <<store, session, credited, debited>>
    /\ IF ~RoleIsAdmin
       THEN Respond("reject_withdraw", "login", "") /\ UNCHANGED <<req, txn>>
       ELSE /\ txn.owner = 0
            /\ txn' = [Begin(w) EXCEPT !.withdrawals =
                          [i \in Ids(withdrawals) |->
                              IF i = wid THEN [withdrawals[i] EXCEPT !.status = "Rejected"]
                              ELSE withdrawals[i]]]
            /\ req' = [req EXCEPT ![w] = [Idle EXCEPT !.pc = "rw_commit", !.id = wid]]
            /\ UNCHANGED response

\* lines 369-371: db.commit()
rw_commit(w) ==
    /\ req[w].pc = "rw_commit"
    /\ txn.owner = w
    /\ withdrawals' = txn.withdrawals
    /\ txn' = NoTxn
    /\ req' = [req EXCEPT ![w] = Idle]
    /\ Respond("reject_withdraw", "admin", "Withdrawal rejected")
    /\ UNCHANGED <<users, rates, trades, session, credited, debited>>

\* deposit, lines 205-228: the session and the amount are checked, SELECT
\* rate_ngn_per_usd FROM rates WHERE method=?, the naira amount is computed from the
\* rate read, and the proof file is checked and named
dp_select(w, method, amount_usd, proof) ==
    /\ req[w].pc = "idle"
    /\ UNCHANGED <<store, session, credited, debited, txn>>
    /\ IF session.user_id = 0
       THEN Respond("deposit", "login", "") /\ UNCHANGED req
       ELSE IF ~IsFloat(amount_usd)
       THEN Respond("deposit", "dashboard", "Enter a valid USD amount") /\ UNCHANGED req
       ELSE IF RateByMethod(method) = {}
       THEN Respond("deposit", "dashboard", "Invalid method") /\ UNCHANGED req
       ELSE IF HasFile(proof) /\ ~allowed_file(The(proof))
       THEN Respond("deposit", "dashboard", "File type not allowed") /\ UNCHANGED req
       ELSE \E now \in Clock :
            LET r == rates[CHOOSE i \in RateByMethod(method) : TRUE]
                amount_usd_f == usd_float(amount_usd)
                filename == IF HasFile(proof)
                            THEN Some(proof_name(session.user_id, now, The(proof)))
                            ELSE None
            IN
            /\ Len(trades) < MaxTrades
            /\ Held(amount_usd, 8)
            /\ Priced(amount_usd_f, r.rate_ngn_per_usd)
            /\ req' = [req EXCEPT ![w] =
                          [Idle EXCEPT !.pc = "dp_insert", !.user_id = session.user_id,
                                       !.method = method, !.amount_usd = amount_usd_f,
                                       !.amount_ngn = amount_ngn_of(amount_usd_f,
                                                                    r.rate_ngn_per_usd),
                                       !.proof = filename]]
            /\ UNCHANGED response

\* lines 230-233: INSERT INTO trades ...
dp_insert(w) ==
    /\ req[w].pc = "dp_insert"
    /\ txn.owner = 0
    /\ Len(trades) < MaxTrades
    /\ txn' = [Begin(w) EXCEPT !.trades = Append(@,
                   [user_id |-> req[w].user_id, method |-> req[w].method,
                    amount_usd |-> req[w].amount_usd, amount_ngn |-> req[w].amount_ngn,
                    proof |-> req[w].proof, status |-> "Pending"])]
    /\ req' = [req EXCEPT ![w].pc = "dp_commit"]
    /\ UNCHANGED <<store, session, response, credited, debited>>

\* lines 234-236: db.commit()
dp_commit(w) ==
    /\ req[w].pc = "dp_commit"
    /\ txn.owner = w
    /\ trades' = txn.trades
    /\ txn' = NoTxn
    /\ req' = [req EXCEPT ![w] = Idle]
    /\ Respond("deposit", "dashboard", "Trade submitted - status: Pending")
    /\ UNCHANGED <<users, rates, withdrawals, session, credited, debited>>

\* withdraw, lines 241-265: the session, the amount and the payee fields are checked,
\* SELECT balance_ngn FROM users WHERE id=?, and the amount is compared with the
\* balance read
wd_select(w, name_in, bank_in, account_in, amount_ngn) ==
    /\ req[w].pc = "idle"
    /\ UNCHANGED <<store, session, credited, debited, txn>>
    /\ IF session.user_id = 0
       THEN Respond("withdraw", "login", "") /\ UNCHANGED req
       ELSE IF ~IsFloat(amount_ngn)
       THEN Respond("withdraw", "dashboard", "Enter valid amount") /\ UNCHANGED req
       ELSE IF "" \in {form_strip(name_in), form_strip(bank_in), form_strip(account_in)}
       THEN Respond("withdraw", "dashboard", "Fill all withdrawal fields") /\ UNCHANGED req
       ELSE IF session.user_id \notin Ids(users)
       THEN Respond("withdraw", "login", "User not found") /\ UNCHANGED req
       ELSE /\ Held(amount_ngn, 100)
            /\ IF Insufficient(ngn_float(amount_ngn), session.user_id)
               THEN Respond("withdraw", "dashboard", "Insufficient balance for this withdrawal.")
                    /\ UNCHANGED req
               ELSE /\ Len(withdrawals) < MaxWithdrawals
                    /\ Abs(ngn_float(amount_ngn)) <= MaxNaira * 100
                    /\ req' = [req EXCEPT ![w] =
                                  [Idle EXCEPT !.pc = "wd_insert", !.user_id = session.user_id,
                                               !.amount_ngn = ngn_float(amount_ngn)]]
                    /\ UNCHANGED response

\* lines 267-270: INSERT INTO withdrawals ...
wd_insert(w) ==
    /\ req[w].pc = "wd_insert"
    /\ txn.owner = 0
    /\ Len(withdrawals) < MaxWithdrawals
    /\ txn' = [Begin(w) EXCEPT !.withdrawals = Append(@,
                   [user_id |-> req[w].user_id, amount_ngn |-> req[w].amount_ngn,
                    status |-> "Pending"])]
    /\ req' = [req EXCEPT ![w].pc = "wd_commit"]
    /\ UNCHANGED <<store, session, response, credited, debited>>

\* lines 271-273: db.commit()
wd_commit(w) ==
    /\ req[w].pc = "wd_commit"
    /\ txn.owner = w
    /\ withdrawals' = txn.withdrawals
    /\ txn' = NoTxn
    /\ req' = [req EXCEPT ![w] = Idle]
    /\ Respond("withdraw", "dashboard", "Withdrawal requested - Pending")
    /\ UNCHANGED <<users, rates, trades, session, credited, debited>>

\* users.email TEXT UNIQUE: the INSERT raises sqlite3.IntegrityError when a committed
\* row holds the email  (UniqueNotEnforced: the column declared without UNIQUE)
UniqueNotEnforced(email) == FALSE
UniqueViolated(email) == UserByEmail(email) # {}

\* register, lines 140-149: the form is read and checked, then SELECT id FROM users
\* WHERE email=?
rg_select(w, email_in, password) ==
    LET email == Normalize(email_in) IN
    /\ req[w].pc = "idle"
    /\ UNCHANGED <<store, session, credited, debited, txn>>
    /\ IF email = "" \/ password = ""
       THEN Respond("register", "register", "Email and password required") /\ UNCHANGED req
       ELSE IF UserByEmail(email) # {}
       THEN Respond("register", "register", "Email already registered") /\ UNCHANGED req
       ELSE /\ req' = [req EXCEPT ![w] = [Idle EXCEPT !.pc = "rg_insert", !.email = email,
                                                       !.password = password]]
            /\ UNCHANGED response

\* lines 150-153: INSERT INTO users ...; the request dies of the IntegrityError when
\* the email has been committed since the SELECT
rg_insert(w) ==
    /\ req[w].pc = "rg_insert"
    /\ txn.owner = 0
    /\ UNCHANGED <<store, session, credited, debited>>
    /\ IF UniqueViolated(req[w].email)
       THEN /\ req' = [req EXCEPT ![w] = Idle]
            /\ Respond("register", "", "sqlite3.IntegrityError")
            /\ UNCHANGED txn
       ELSE /\ Len(users) < MaxUsers
            /\ txn' = [Begin(w) EXCEPT !.users = Append(@,
                           [email |-> req[w].email,
                            password |-> generate_password_hash(req[w].password),
                            balance_ngn |-> Naira(0), role |-> "user"])]
            /\ req' = [req EXCEPT ![w].pc = "rg_commit"]
            /\ UNCHANGED response

\* lines 154-156: db.commit()
rg_commit(w) ==
    /\ req[w].pc = "rg_commit"
    /\ txn.owner = w
    /\ users' = txn.users
    /\ txn' = NoTxn
    /\ req' = [req EXCEPT ![w] = Idle]
    /\ Respond("register", "login", "Registration successful - please login")
    /\ UNCHANGED <<rates, trades, withdrawals, session, credited, debited>>

\* the request dies (the process is killed, the store raises) before its commit:
\* close_db closes the connection and the open transaction is rolled back
crash(w) ==
    /\ req[w].pc # "idle"
    /\ req' = [req EXCEPT ![w] = Idle]
    /\ txn' = IF txn.owner = w THEN NoTxn ELSE txn
    /\ UNCHANGED <<store, session, response, credited, debited>>

\* POST /admin, lines 278-289: the role check, SELECT * FROM rates and the form
ad_select(w, form) ==
    /\ req[w].pc = "idle"
    /\ UNCHANGED <<store, session, credited, debited, txn>>
    /\ IF ~RoleIsAdmin
       THEN Respond("admin", "login", "Admin access required") /\ UNCHANGED req
       ELSE /\ FormHeld(form)
            /\ req' = [req EXCEPT ![w] =
                          [Idle EXCEPT !.form = form, !.id = NextStmt(form, 1),
                                       !.pc = IF NextStmt(form, 1) <= LastStmt
                                              THEN "ad_update" ELSE "ad_commit"]]
            /\ UNCHANGED response

\* the request of worker w goes on to the next statement of its loop, or to the commit
ad_next(w) ==
    LET n == NextStmt(req[w].form, req[w].id + 1)
    IN  req' = [req EXCEPT ![w].id = n,
                           ![w].pc = IF n <= LastStmt THEN "ad_update" ELSE "ad_commit"]

\* lines 292, 296, 298: UPDATE rates SET <column>=? WHERE id=?
ad_update(w) ==
    /\ req[w].pc = "ad_update"
    /\ txn.owner \in {0, w}
    /\ LET n == req[w].id
           open == IF txn.owner = w THEN txn ELSE Begin(w)
       IN  txn' = [open EXCEPT !.rates[StmtRow(n)] =
                                   UpdateRate(@, Only(req[w].form[StmtRow(n)], StmtField(n)))]
    /\ ad_next(w)
    /\ UNCHANGED <<store, session, response, credited, debited>>

\* lines 291-294: the UPDATE of the rate column runs out of time waiting for the lock
\* of another request, and the except clause passes over the error
ad_rate_skipped(w) ==
    /\ req[w].pc = "ad_update"
    /\ StmtField(req[w].id) = "rate"
    /\ txn.owner \notin {0, w}
    /\ ad_next(w)
    /\ UNCHANGED <<store, session, response, credited, debited, txn>>

\* lines 299-301: db.commit(), which commits what the request has written, if anything
ad_commit(w) ==
    /\ req[w].pc = "ad_commit"
    /\ IF txn.owner = w
       THEN rates' = txn.rates /\ txn' = NoTxn
       ELSE UNCHANGED <<rates, txn>>
    /\ req' = [req EXCEPT ![w] = Idle]
    /\ Respond("admin", "admin", "Rates & tags updated")
    /\ UNCHANGED <<users, trades, withdrawals, session, credited, debited>>

\* the next statement of the request is one whose sqlite3.OperationalError nothing
\* catches
WaitsForLock(r) ==
    \/ r.pc \in {"rg_insert", "dp_insert", "wd_insert", "at_status", "aw_status", "aw_reject"}
    \/ r.pc = "ad_update" /\ StmtField(r.id) # "rate"

HandlerOf(pc) ==
    CASE pc = "rg_insert" -> "register"
      [] pc = "dp_insert" -> "deposit"
      [] pc = "wd_insert" -> "withdraw"
      [] pc = "at_status" -> "approve_trade"
      [] pc \in {"aw_status", "aw_reject"} -> "approve_withdraw"
      [] pc = "ad_update" -> "admin"

\* the statement runs out of time waiting for the lock of another request
db_locked(w) ==
    /\ WaitsForLock(req[w])
    /\ txn.owner \notin {0, w}
    /\ req' = [req EXCEPT ![w] = Idle]
    /\ db_error(HandlerOf(req[w].pc))
    /\ UNCHANGED <<store, session, credited, debited, txn>>

\* ---------------------------------------------------------------- specification
\* every route, served whole or, for the worker of Overlap, statement by statement
\* with the other requests served between its statements
Next ==
    \/ \E i \in RegisterInputs : register(i[1], i[2])
    \/ \E i \in LoginInputs : login(i[1], i[2])
    \/ logout
    \/ \E i \in DepositInputs : deposit(i[1], i[2], i[3])
    \/ \E i \in WithdrawInputs : withdraw(i[1], i[2], i[3], i[4])
    \/ \E form \in Forms : admin(form)
    \/ \E tid \in 1 .. MaxTrades : approve_trade(tid)
    \/ \E tid \in 1 .. MaxTrades : reject_trade(tid)
    \/ \E wid \in 1 .. MaxWithdrawals : approve_withdraw(wid)
    \/ \E wid \in 1 .. MaxWithdrawals : reject_withdraw(wid)
    \/ \E w \in Overlap, i \in RegisterInputs : rg_select(w, i[1], i[2])
    \/ \E w \in Overlap : rg_insert(w)
    \/ \E w \in Overlap : rg_commit(w)
    \/ \E w \in Overlap, i \in DepositInputs : dp_select(w, i[1], i[2], i[3])
    \/ \E w \in Overlap : dp_insert(w)
    \/ \E w \in Overlap : dp_commit(w)
    \/ \E w \in Overlap, i \in WithdrawInputs : wd_select(w, i[1], i[2], i[3], i[4])
    \/ \E w \in Overlap : wd_insert(w)
    \/ \E w \in Overlap : wd_commit(w)
    \/ \E w \in Overlap, tid \in 1 .. MaxTrades : at_select(w, tid)
    \/ \E w \in Overlap : at_update_status(w)
    \/ \E w \in Overlap : at_update_balance(w)
    \/ \E w \in Overlap : at_commit(w)
    \/ \E w \in Overlap, tid \in 1 .. MaxTrades : rt_update(w, tid)
    \/ \E w \in Overlap : rt_commit(w)
    \/ \E w \in Overlap, wid \in 1 .. MaxWithdrawals : aw_select(w, wid)
    \/ \E w \in Overlap : aw_check(w)
    \/ \E w \in Overlap : aw_update_status(w)
    \/ \E w \in Overlap : aw_update_balance(w)
    \/ \E w \in Overlap : aw_commit(w)
    \/ \E w \in Overlap : aw_reject(w)
    \/ \E w \in Overlap : aw_reject_commit(w)
    \/ \E w \in Overlap, wid \in 1 .. MaxWithdrawals : rw_update(w, wid)
    \/ \E w \in Overlap : rw_commit(w)
    \/ \E w \in Overlap, form \in Forms : ad_select(w, form)
    \/ \E w \in Overlap : ad_update(w)
    \/ \E w \in Overlap : ad_commit(w)
    \/ \E w \in Overlap : crash(w)

Spec == Init /\ [][Next]_vars

\* the requests that log in, submit and settle, two of them at a time followed
\* statement by statement
NextConc ==
    \/ \E i \in LoginInputs : login(i[1], i[2])
    \/ \E i \in DepositInputs : deposit(i[1], i[2], i[3])
    \/ \E i \in WithdrawInputs : withdraw(i[1], i[2], i[3], i[4])
    \/ \E tid \in 1 .. MaxTrades : approve_trade(tid)
    \/ \E tid \in 1 .. MaxTrades : reject_trade(tid)
    \/ \E wid \in 1 .. MaxWithdrawals : approve_withdraw(wid)
    \/ \E wid \in 1 .. MaxWithdrawals : reject_withdraw(wid)
    \/ \E w \in Workers, i \in DepositInputs : dp_select(w, i[1], i[2], i[3])
    \/ \E w \in Workers : dp_insert(w)
    \/ \E w \in Workers : dp_commit(w)
    \/ \E w \in Workers, i \in WithdrawInputs : wd_select(w, i[1], i[2], i[3], i[4])
    \/ \E w \in Workers : wd_insert(w)
    \/ \E w \in Workers : wd_commit(w)
    \/ \E w \in Workers, tid \in 1 .. MaxTrades : at_select(w, tid)
    \/ \E w \in Workers : at_update_status(w)
    \/ \E w \in Workers : at_update_balance(w)
    \/ \E w \in Workers : at_commit(w)
    \/ \E w \in Workers, tid \in 1 .. MaxTrades : rt_update(w, tid)
    \/ \E w \in Workers : rt_commit(w)
    \/ \E w \in Workers, wid \in 1 .. MaxWithdrawals : aw_select(w, wid)
    \/ \E w \in Workers : aw_check(w)
    \/ \E w \in Workers : aw_update_status(w)
    \/ \E w \in Workers : aw_update_balance(w)
    \/ \E w \in Workers : aw_commit(w)
    \/ \E w \in Workers : aw_reject(w)
    \/ \E w \in Workers : aw_reject_commit(w)
    \/ \E w \in Workers, wid \in 1 .. MaxWithdrawals : rw_update(w, wid)
    \/ \E w \in Workers : rw_commit(w)
    \/ \E w \in Workers : crash(w)
    \/ \E w \in Workers : db_locked(w)

SpecConc == Init /\ [][NextConc]_vars

\* registrations, two of them at a time followed statement by statement, and logins
NextReg ==
    \/ \E i \in RegisterForms : register(i[1], i[2])
    \/ \E i \in LoginInputs : login(i[1], i[2])
    \/ \E w \in Workers, i \in RegisterForms : rg_select(w, i[1], i[2])
    \/ \E w \in Workers : rg_insert(w)
    \/ \E w \in Workers : rg_commit(w)
    \/ \E w \in Workers : crash(w)
    \/ \E w \in Workers : db_locked(w)

SpecReg == Init /\ [][NextReg]_vars

\* a logged-in caller who deposits, is credited, and sends withdrawal forms that the
\* admin settles; the requests are served whole or, for the worker of Overlap,
\* statement by statement
NextWithdraw ==
    \/ \E i \in LoginInputs : login(i[1], i[2])
    \/ \E i \in DepositInputs : deposit(i[1], i[2], i[3])
    \/ \E tid \in 1 .. MaxTrades : approve_trade(tid)
    \/ \E i \in WithdrawForms : withdraw(i[1], i[2], i[3], i[4])
    \/ \E wid \in 1 .. MaxWithdrawals : approve_withdraw(wid)
    \/ \E wid \in 1 .. MaxWithdrawals : reject_withdraw(wid)
    \/ \E w \in Overlap, i \in DepositInputs : dp_select(w, i[1], i[2], i[3])
    \/ \E w \in Overlap : dp_insert(w)
    \/ \E w \in Overlap : dp_commit(w)
    \/ \E w \in Overlap, i \in WithdrawForms : wd_select(w, i[1], i[2], i[3], i[4])
    \/ \E w \in Overlap : wd_insert(w)
    \/ \E w \in Overlap : wd_commit(w)
    \/ \E w \in Overlap, tid \in 1 .. MaxTrades : at_select(w, tid)
    \/ \E w \in Overlap : at_update_status(w)
    \/ \E w \in Overlap : at_update_balance(w)
    \/ \E w \in Overlap : at_commit(w)
    \/ \E w \in Overlap, wid \in 1 .. MaxWithdrawals : aw_select(w, wid)
    \/ \E w \in Overlap : aw_check(w)
    \/ \E w \in Overlap : aw_update_status(w)
    \/ \E w \in Overlap : aw_update_balance(w)
    \/ \E w \in Overlap : aw_commit(w)
    \/ \E w \in Overlap : aw_reject(w)
    \/ \E w \in Overlap : aw_reject_commit(w)
    \/ \E w \in Overlap, wid \in 1 .. MaxWithdrawals : rw_update(w, wid)
    \/ \E w \in Overlap : rw_commit(w)
    \/ \E w \in Overlap : crash(w)

SpecWithdraw == Init /\ [][NextWithdraw]_vars

\* the admin edits rates between and during the submissions and the settlements of a
\* user's trades; the requests are served whole or statement by statement, the rate
\* update on the second worker and the other requests on the worker of Overlap
NextRates ==
    \/ \E i \in RegisterInputs : register(i[1], i[2])
    \/ \E i \in LoginInputs : login(i[1], i[2])
    \/ \E i \in RateDeposits : deposit(i[1], i[2], i[3])
    \/ \E form \in RateForms : admin(form)
    \/ \E tid \in 1 .. MaxTrades : approve_trade(tid)
    \/ \E tid \in 1 .. MaxTrades : reject_trade(tid)
    \/ \E w \in Overlap, i \in RegisterInputs : rg_select(w, i[1], i[2])
    \/ \E w \in Overlap : rg_insert(w)
    \/ \E w \in Overlap : rg_commit(w)
    \/ \E w \in Overlap, i \in RateDeposits : dp_select(w, i[1], i[2], i[3])
    \/ \E w \in Overlap : dp_insert(w)
    \/ \E w \in Overlap : dp_commit(w)
    \/ \E w \in Overlap, tid \in 1 .. MaxTrades : at_select(w, tid)
    \/ \E w \in Overlap : at_update_status(w)
    \/ \E w \in Overlap : at_update_balance(w)
    \/ \E w \in Overlap : at_commit(w)
    \/ \E w \in Overlap, tid \in 1 .. MaxTrades : rt_update(w, tid)
    \/ \E w \in Overlap : rt_commit(w)
    \/ \E w \in Workers \ Overlap, form \in RateForms : ad_select(w, form)
    \/ \E w \in Workers \ Overlap : ad_update(w)
    \/ \E w \in Workers \ Overlap : ad_rate_skipped(w)
    \/ \E w \in Workers \ Overlap : ad_commit(w)
    \/ \E w \in Workers : crash(w)
    \/ \E w \in Workers : db_locked(w)

SpecRates == Init /\ [][NextRates]_vars

\* a user registers, logs in and submits trades, with and without proof files, while
\* the admin edits the rates; the requests are served whole or statement by
\* statement, the rate update on the second worker and the other requests on the
\* worker of Overlap
NextDeposit ==
    \/ \E i \in RegisterInputs : register(i[1], i[2])
    \/ \E i \in LoginInputs : login(i[1], i[2])
    \/ \E i \in DepositForms : deposit(i[1], i[2], i[3])
    \/ \E form \in PriceForms : admin(form)
    \/ \E w \in Overlap, i \in RegisterInputs : rg_select(w, i[1], i[2])
    \/ \E w \in Overlap : rg_insert(w)
    \/ \E w \in Overlap : rg_commit(w)
    \/ \E w \in Overlap, i \in DepositForms : dp_select(w, i[1], i[2], i[3])
    \/ \E w \in Overlap : dp_insert(w)
    \/ \E w \in Overlap : dp_commit(w)
    \/ \E w \in Workers \ Overlap, form \in PriceForms : ad_select(w, form)
    \/ \E w \in Workers \ Overlap : ad_update(w)
    \/ \E w \in Workers \ Overlap : ad_rate_skipped(w)
    \/ \E w \in Workers \ Overlap : ad_commit(w)
    \/ \E w \in Workers : crash(w)
    \/ \E w \in Workers : db_locked(w)

SpecDeposit == Init /\ [][NextDeposit]_vars

\* ================================================================ claims
Balance(i) == users[i].balance_ngn
\* The number of hundredths of a naira nearest to a double: the decimal number with
\* two decimals that the double stands for (100 x being 64 x + 32 x + 4 x).
Hundredths(x) ==
    LET c == MagAdd(MagAdd(MagShift(x.mag, 6), MagShift(x.mag, 5)), MagShift(x.mag, 2))
        n == c[5] + Base * c[6] + Bit(c, UlpBits - 1)
    IN  IF x.neg THEN -n ELSE n
Forbidden(h) == [handler |-> h, redirect |-> "login", flash |-> ""]

\* C1: a trade's status changes at most once: once it is Approved or Rejected, no
\* step changes it (rejectTrade on an Approved trade leaves it Approved).
C1_TradeStatusChangesOnce ==
    [][\A i \in Ids(trades) :
          trades[i].status # "Pending" => trades'[i].status = trades[i].status]_vars

\* C2: a withdrawal's status changes at most once: once it is Approved or Rejected,
\* no step changes it (rejectWithdrawal on an Approved withdrawal leaves it Approved).
C2_WithdrawalStatusChangesOnce ==
    [][\A i \in Ids(withdrawals) :
          withdrawals[i].status # "Pending"
             => withdrawals'[i].status = withdrawals[i].status]_vars

\* C3: an approveTrade call by an admin, served with no other request in between and
\* with the store's write lock free, on a Pending trade sets it Approved and increases
\* the owner's balance by exactly its amountNgn, no other balance changing, and that
\* is one credit of the trade: the balance being the decimal number b, it is b +
\* amountNgn afterwards, which the store holds as the double nearest to it.  Such a
\* call on a trade that is not Pending changes no status and no balance and credits
\* nothing; and a trade that is not Pending never becomes Pending again, so the calls
\* that follow an approval one after the other are all of the second kind.
C3_ApproveTradeCreditsOnce ==
    /\ [][\A tid \in 1 .. MaxTrades :
            ( /\ response'.handler = "approve_trade"
              /\ session.role = Some("admin")
              /\ txn.owner = 0
              /\ approve_trade(tid) ) =>
               IF tid \in Ids(trades) /\ trades[tid].status = "Pending"
               THEN /\ trades' = [trades EXCEPT ![tid].status = "Approved"]
                    /\ \A u \in Ids(users) :
                          Balance(u)' = IF u = trades[tid].user_id
                                        THEN Naira(Hundredths(Balance(u))
                                                   + trades[tid].amount_ngn)
                                        ELSE Balance(u)
                    /\ credited' = [credited EXCEPT ![tid] = @ + 1]
               ELSE UNCHANGED <<trades, users, credited>>]_vars
    /\ [][\A tid \in Ids(trades) :
            trades[tid].status # "Pending"
               => tid \in Ids(trades') /\ trades'[tid].status # "Pending"]_vars

\* C4: approveWithdrawal by an admin on a Pending withdrawal whose amount exceeds the
\* owner's balance at that time sets it Rejected and changes no balance (the call
\* being one that finds the store's write lock free).  For a call followed statement
\* by statement, that time is the call's balance read: when the balance read is below
\* the amount, the call goes on to reject; from there it never comes to approve; its
\* UPDATE writes Rejected into its transaction and nothing else, the committed store
\* standing as it was; and its commit sets the withdrawal Rejected and changes no
\* balance and no debit.
C4_ApproveWithdrawAutoRejects ==
    /\ [][\A wid \in 1 .. MaxWithdrawals :
            ( /\ response'.handler = "approve_withdraw"
              /\ session.role = Some("admin")
              /\ wid \in Ids(withdrawals)
              /\ withdrawals[wid].status = "Pending"
              /\ Less(Balance(withdrawals[wid].user_id), Naira(withdrawals[wid].amount_ngn))
              /\ txn.owner = 0
              /\ approve_withdraw(wid) )
            => /\ withdrawals' = [withdrawals EXCEPT ![wid].status = "Rejected"]
               /\ users' = users
               /\ debited' = debited]_vars
    /\ [][\A w \in Workers :
            ( /\ req[w].pc = "aw_check"
              /\ Less(Balance(req[w].user_id), Naira(req[w].amount_ngn))
              /\ aw_check(w) )
            => req'[w].pc = "aw_reject"]_vars
    /\ [][\A w \in Workers :
            req[w].pc \in {"aw_reject", "aw_reject_commit"}
               => req'[w].pc \in {"aw_reject", "aw_reject_commit", "idle"}]_vars
    /\ [][\A w \in Workers :
            ( /\ req[w].pc = "aw_reject"
              /\ aw_reject(w) )
            => /\ UNCHANGED <<users, withdrawals, debited>>
               /\ txn'.owner = w
               /\ txn'.users = users
               /\ txn'.withdrawals = [withdrawals EXCEPT ![req[w].id].status = "Rejected"]]_vars
    /\ [][\A w \in Workers :
            ( /\ req[w].pc = "aw_reject_commit"
              /\ aw_reject_commit(w) )
            => /\ withdrawals' = [withdrawals EXCEPT ![req[w].id].status = "Rejected"]
               /\ users' = users
               /\ debited' = debited]_vars

\* C4 witness: the approval has just auto-rejected a withdrawal of a positive amount,
\* accepted at submission (so within the balance then), that now exceeds the balance.
C4_Witness ==
    /\ response.handler = "approve_withdraw"
    /\ response.flash = "Cannot approve - user has insufficient balance. Withdrawal rejected."
    /\ \E wid \in Ids(withdrawals) :
          /\ withdrawals[wid].status = "Rejected"
          /\ debited[wid] = 0
          /\ withdrawals[wid].amount_ngn > 0
          /\ Less(Balance(withdrawals[wid].user_id), Naira(withdrawals[wid].amount_ngn))

\* C5: an approveWithdrawal call by an admin, served with no other request in
\* between and with the store's write lock free, on a Pending withdrawal with balance
\* >= amount sets it Approved and decreases the owner's balance by exactly the
\* amount, which is one debit of the withdrawal: the balance being the decimal number
\* b, it is b - amountNgn afterwards, which the store holds as the double nearest to
\* it.  Such a call on a withdrawal that is not Pending changes no status and no
\* balance and debits nothing; and a withdrawal that is not Pending never becomes
\* Pending again, so a later call on an approved withdrawal is of the second kind.
C5_ApproveWithdrawDebitsOnce ==
    /\ [][\A wid \in Ids(withdrawals) :
            withdrawals[wid].status # "Pending"
               => wid \in Ids(withdrawals') /\ withdrawals'[wid].status # "Pending"]_vars
    /\ [][\A wid \in 1 .. MaxWithdrawals :
            ( /\ response'.handler = "approve_withdraw"
              /\ session.role = Some("admin")
              /\ txn.owner = 0
              /\ approve_withdraw(wid) ) =>
               IF wid \in Ids(withdrawals) /\ withdrawals[wid].status = "Pending"
               THEN ~Less(Balance(withdrawals[wid].user_id), Naira(withdrawals[wid].amount_ngn))
                    => /\ withdrawals' = [withdrawals EXCEPT ![wid].status = "Approved"]
                       /\ \A u \in Ids(users) :
                             Balance(u)' = IF u = withdrawals[wid].user_id
                                           THEN Naira(Hundredths(Balance(u))
                                                      - withdrawals[wid].amount_ngn)
                                           ELSE Balance(u)
                       /\ debited' = [debited EXCEPT ![wid] = @ + 1]
               ELSE UNCHANGED <<withdrawals, users, debited>>]_vars

\* C6: a withdraw submission by a logged-in user whose amount exceeds the user's
\* balance creates no withdrawal row and changes no balance and no existing row.  For
\* a submission followed statement by statement, the balance is the one its SELECT
\* reads, and a submission refused there has no statement left to run.
C6_OverdrawnSubmissionRejected ==
    /\ [][\A i \in WithdrawInputs :
            ( /\ response'.handler = "withdraw"
              /\ session.user_id # 0
              /\ IsFloat(i[4])
              /\ Held(i[4], 100)
              /\ Less(Balance(session.user_id), Naira(ngn_float(i[4])))
              /\ withdraw(i[1], i[2], i[3], i[4]) )
            => UNCHANGED <<users, withdrawals, trades, rates>>]_vars
    /\ [][\A w \in Overlap, i \in WithdrawInputs :
            ( /\ req[w].pc = "idle"
              /\ session.user_id # 0
              /\ IsFloat(i[4])
              /\ Held(i[4], 100)
              /\ Less(Balance(session.user_id), Naira(ngn_float(i[4])))
              /\ wd_select(w, i[1], i[2], i[3], i[4]) )
            => UNCHANGED <<users, withdrawals, trades, rates, req, txn>>]_vars

\* C6 witness: balance 6999.88 after an approved withdrawal, and a submission of
\* 7000.12 with every payee field filled has just been answered "Insufficient balance".
C6_Witness ==
    /\ response.handler = "withdraw"
    /\ response.flash = "Insufficient balance for this withdrawal."
    /\ session.user_id # 0
    /\ Balance(session.user_id) = Naira(699988)
    /\ Len(withdrawals) = 1
    /\ withdrawals[1].status = "Approved"

\* C7: in every committed store state a request is Approved exactly when its balance
\* effect has been applied (once): a trade's credit, a withdrawal's debit.
C7_ApprovedIffApplied ==
    /\ \A tid \in Ids(trades) : (trades[tid].status = "Approved") <=> (credited[tid] = 1)
    /\ \A wid \in Ids(withdrawals) :
          (withdrawals[wid].status = "Approved") <=> (debited[wid] = 1)

\* C8: under any interleaving of two approveTrade requests for the same Pending
\* trade, the trade's amount is credited exactly once.
C8_ConcurrentApproveCreditsOnce ==
    \A tid \in Ids(trades) : credited[tid] <= 1

\* C9: only approveTrade and approveWithdrawal change a balance: every other handler
\* leaves the balance of every existing user as it was, and register adds its user
\* with balance 0.
C9_OnlyApprovalsChangeBalances ==
    [][response'.handler \notin {"approve_trade", "approve_withdraw"}
          => /\ \A u \in Ids(users) : u \in Ids(users') /\ Balance(u)' = Balance(u)
             /\ \A u \in Ids(users') \ Ids(users) : Balance(u)' = Naira(0)]_vars

\* C9 witness: a user holds a balance and a Pending withdrawal has just been rejected
\* by the admin, the balance standing as the approvals left it.
C9_Witness ==
    /\ response = [handler |-> "reject_withdraw", redirect |-> "admin",
                   flash |-> "Withdrawal rejected"]
    /\ \E wid \in Ids(withdrawals) :
          /\ withdrawals[wid].status = "Rejected"
          /\ debited[wid] = 0
          /\ Balance(withdrawals[wid].user_id) = Naira(1400000)

\* C10: approveTrade, rejectTrade, approveWithdrawal, rejectWithdrawal and setRate
\* called without the admin role change no request, no balance and no rate.
C10_NonAdminChangesNothing ==
    [][( /\ response'.handler \in {"approve_trade", "reject_trade", "approve_withdraw",
                                    "reject_withdraw", "admin"}
         /\ session.role # Some("admin")
         /\ \/ \E tid \in 1 .. MaxTrades :
                  \/ approve_trade(tid)
                  \/ reject_trade(tid)
                  \/ \E w \in Workers : at_select(w, tid) \/ rt_update(w, tid)
            \/ \E wid \in 1 .. MaxWithdrawals :
                  \/ approve_withdraw(wid)
                  \/ reject_withdraw(wid)
                  \/ \E w \in Workers : aw_select(w, wid) \/ rw_update(w, wid)
            \/ \E form \in Forms :
                  \/ admin(form)
                  \/ \E w \in Workers : ad_select(w, form) )
          => UNCHANGED <<users, rates, trades, withdrawals, credited, debited, req, txn>>]_vars

\* C10 witness: a logged-in user who is no admin has just called rejectTrade on a
\* Pending trade and was sent to the login page, the trade still Pending.
C10_Witness ==
    /\ response = Forbidden("reject_trade")
    /\ session.user_id # 0
    /\ session.role = Some("user")
    /\ \E tid \in Ids(trades) : trades[tid].status = "Pending"

\* C11: submitTrade accepts only a positive amountUsd: a submission whose amount is
\* zero, negative or not a number inserts no trade, so every trade of every reachable
\* state has amountUsd > 0 and amountNgn > 0.
C11_TradeAmountsPositive ==
    /\ [](\A tid \in Ids(trades) : trades[tid].amount_usd > 0 /\ trades[tid].amount_ngn > 0)
    /\ [][\A i \in DepositInputs :
            ( /\ response'.handler = "deposit"
              /\ ~IsFloat(i[2]) \/ usd_float(i[2]) <= 0
              /\ deposit(i[1], i[2], i[3]) )
            => trades' = trades]_vars

\* C12: submitWithdrawal accepts only a positive amountNgn and non-empty name, bank
\* and account: a submission with an amount of zero or below, or with one of the three
\* fields empty, inserts no withdrawal, so every withdrawal of every reachable state
\* has amountNgn > 0.
C12_WithdrawalAmountsPositive ==
    /\ [](\A wid \in Ids(withdrawals) : withdrawals[wid].amount_ngn > 0)
    /\ [][\A i \in WithdrawForms :
            ( /\ response'.handler = "withdraw"
              /\ \/ ~IsFloat(i[4])
                 \/ ngn_float(i[4]) <= 0
                 \/ "" \in {form_strip(i[1]), form_strip(i[2]), form_strip(i[3])}
              /\ withdraw(i[1], i[2], i[3], i[4]) )
            => withdrawals' = withdrawals]_vars

\* C13: once a trade is created, its amountNgn, owner, method and amountUsd never
\* change, whatever rate edits, approvals and rejections follow; and approveTrade
\* credits the amountNgn stored at submission, not a value recomputed from the rate
\* of the moment: the amount that the call adds to the owner's balance, with the
\* addition of the REAL column, is the stored one.  This is so of the call served
\* whole with the write lock free, and of the call followed statement by statement:
\* the amount it holds after its SELECT is the stored one, its UPDATE adds that amount
\* to the balance, and its commit stores that sum.
C13_TradeSnapshotImmutable ==
    /\ [][\A tid \in Ids(trades) :
            /\ tid \in Ids(trades')
            /\ trades'[tid].amount_ngn = trades[tid].amount_ngn
            /\ trades'[tid].user_id = trades[tid].user_id
            /\ trades'[tid].method = trades[tid].method
            /\ trades'[tid].amount_usd = trades[tid].amount_usd]_vars
    /\ [][\A tid \in 1 .. MaxTrades :
            ( /\ response'.handler = "approve_trade"
              /\ session.role = Some("admin")
              /\ tid \in Ids(trades)
              /\ trades[tid].status = "Pending"
              /\ txn.owner = 0
              /\ approve_trade(tid) )
            => Balance(trades[tid].user_id)' =
                  Plus(Balance(trades[tid].user_id), Naira(trades[tid].amount_ngn))]_vars
    /\ [][\A w \in Workers :
            \/ req'[w].pc \notin {"at_status", "at_balance", "at_commit"}
            \/ /\ req'[w].id \in Ids(trades')
               /\ req'[w].amount_ngn = trades'[req'[w].id].amount_ngn
               /\ req'[w].user_id = trades'[req'[w].id].user_id]_vars
    /\ [][\A w \in Workers :
            ( /\ req[w].pc = "at_balance"
              /\ at_update_balance(w) )
            => txn'.users[req[w].user_id].balance_ngn =
                  Plus(Balance(req[w].user_id), Naira(trades[req[w].id].amount_ngn))]_vars
    /\ [][\A w \in Workers :
            ( /\ req[w].pc = "at_commit"
              /\ at_commit(w) )
            => users' = txn.users]_vars

\* C13 witness: a trade of 0.125 USD submitted at 1400 NGN per USD (175 NGN) has just
\* been approved after the admin set the method's rate to 1, at which it would be
\* 0.12 NGN: the trade still says 175 and the owner, a registered user, was credited
\* 175.
C13_Witness ==
    /\ response = [handler |-> "approve_trade", redirect |-> "admin",
                   flash |-> "Trade approved and user credited"]
    /\ trades # <<>>
    /\ trades[1].status = "Approved"
    /\ trades[1].amount_usd = 1
    /\ trades[1].amount_ngn = 17500
    /\ rates[CHOOSE k \in RateByMethod(trades[1].method) : TRUE].rate_ngn_per_usd = 1
    /\ amount_ngn_of(trades[1].amount_usd, 1) = 12
    /\ users[trades[1].user_id].role = "user"
    /\ Balance(trades[1].user_id) = Naira(17500)

\* C14: setRate is a partial update: in an admin's rate update, a field (rate, tag,
\* status) that the form does not supply for a row keeps its value, a row for which
\* nothing is supplied is unchanged, and no row is added, removed or renamed.  This is
\* so of the update served whole and of the commit of the update followed statement
\* by statement, the one step of it that changes the rates.
C14_SetRatePartialUpdate ==
    /\ [][\A form \in RateForms :
            ( /\ response'.handler = "admin"
              /\ session.role = Some("admin")
              /\ admin(form) )
            => /\ Len(rates') = Len(rates)
               /\ \A i \in Ids(rates) :
                     /\ rates'[i].method = rates[i].method
                     /\ form[i].rate = None
                           => rates'[i].rate_ngn_per_usd = rates[i].rate_ngn_per_usd
                     /\ form[i].tag = None => rates'[i].tag = rates[i].tag
                     /\ form[i].status = None => rates'[i].status = rates[i].status
                     /\ form[i] = NoFields => rates'[i] = rates[i]]_vars
    /\ [][\A w \in Workers :
            ( /\ req[w].pc = "ad_commit"
              /\ ad_commit(w) )
            => /\ Len(rates') = Len(rates)
               /\ \A i \in Ids(rates) :
                     LET f == req[w].form[i] IN
                     /\ rates'[i].method = rates[i].method
                     /\ f.rate = None => rates'[i].rate_ngn_per_usd = rates[i].rate_ngn_per_usd
                     /\ f.tag = None => rates'[i].tag = rates[i].tag
                     /\ f.status = None => rates'[i].status = rates[i].status
                     /\ f = NoFields => rates'[i] = rates[i]]_vars
    /\ [][rates' # rates
            => \/ \E form \in RateForms : admin(form)
               \/ \E w \in Workers : ad_commit(w)]_vars

\* C14 witness: after updates that gave CashApp the rate 1 and a new tag, an update
\* supplying only its status has locked it: rate and tag are those of the earlier
\* updates, and the three rows no update addressed are as init_db wrote them.
C14_Witness ==
    /\ response = [handler |-> "admin", redirect |-> "admin",
                   flash |-> "Rates & tags updated"]
    /\ rates[2].status = "locked"
    /\ rates[2].rate_ngn_per_usd = 1
    /\ rates[2].tag = "CashApp tag: $PW"
    /\ \A i \in {1, 3, 4} : rates[i] = DefaultRates[i]

\* C15: setRate with a newRate that is zero, negative or not a number leaves the
\* stored rate of that row unchanged; so every rate row's rate is positive in every
\* reachable state, and its status is always active or locked.
C15_RatesStayPositive ==
    /\ [](\A i \in Ids(rates) :
            /\ rates[i].rate_ngn_per_usd > 0
            /\ rates[i].status \in {"active", "locked"})
    /\ [][\A form \in RateForms :
            ( /\ response'.handler = "admin"
              /\ session.role = Some("admin")
              /\ admin(form) )
            => \A i \in Ids(rates) :
                  ( /\ form[i].rate # None
                    /\ ~IsFloat(The(form[i].rate)) \/ rate_float(The(form[i].rate)) <= 0 )
                     => rates'[i].rate_ngn_per_usd = rates[i].rate_ngn_per_usd]_vars

\* C16: a successful submitTrade by a logged-in user inserts exactly one trade, owned
\* by that user, Pending, with the submitted method and amountUsd, and with amountNgn
\* equal to amountUsd times the rate stored for the method at that moment, rounded to
\* 2 decimals (to the nearest hundredth, a tie going to the even hundredth); any other
\* submission, one naming a method with no rate row among them, inserts nothing.
\* For a submission followed statement by statement, that moment is its SELECT of the
\* rate: the amount it holds after the SELECT is the rounded product with the rate
\* read, and its commit adds exactly one trade, carrying that amount.
\* (x is the exact product in eighths of a hundredth of a naira.)
C16_SubmitTradeSnapshotsRate ==
    /\ [][\A i \in DepositForms :
            ( /\ response'.handler = "deposit"
              /\ session.user_id # 0
              /\ deposit(i[1], i[2], i[3]) )
            => IF response'.flash = "Trade submitted - status: Pending"
               THEN /\ RateByMethod(i[1]) # {}
                    /\ Len(trades') = Len(trades) + 1
                    /\ \A k \in Ids(trades) : trades'[k] = trades[k]
                    /\ LET t == trades'[Len(trades')]
                            rate == rates[CHOOSE k \in RateByMethod(i[1]) : TRUE].rate_ngn_per_usd
                            x == usd_float(i[2]) * rate * 100
                        IN  /\ t.user_id = session.user_id
                            /\ t.method = i[1]
                            /\ t.status = "Pending"
                            /\ t.amount_usd = usd_float(i[2])
                            /\ 8 * t.amount_ngn - x \in -4 .. 4
                            /\ 8 * t.amount_ngn - x \in {-4, 4} => t.amount_ngn % 2 = 0
               ELSE trades' = trades]_vars
    /\ [][\A w \in Overlap, i \in DepositForms :
            ( /\ req[w].pc = "idle"
              /\ session.user_id # 0
              /\ dp_select(w, i[1], i[2], i[3]) )
            => /\ trades' = trades
               /\ req'[w].pc = "dp_insert" =>
                     LET t == req'[w]
                         rate == rates[CHOOSE k \in RateByMethod(i[1]) : TRUE].rate_ngn_per_usd
                         x == usd_float(i[2]) * rate * 100
                     IN  /\ RateByMethod(i[1]) # {}
                         /\ t.user_id = session.user_id
                         /\ t.method = i[1]
                         /\ t.amount_usd = usd_float(i[2])
                         /\ 8 * t.amount_ngn - x \in -4 .. 4
                         /\ 8 * t.amount_ngn - x \in {-4, 4} => t.amount_ngn % 2 = 0]_vars
    /\ [][\A w \in Workers :
            ( /\ req[w].pc = "dp_commit"
              /\ dp_commit(w) )
            => /\ Len(trades') = Len(trades) + 1
               /\ \A k \in Ids(trades) : trades'[k] = trades[k]
               /\ LET t == trades'[Len(trades')]
                  IN  /\ t.user_id = req[w].user_id
                      /\ t.method = req[w].method
                      /\ t.status = "Pending"
                      /\ t.amount_usd = req[w].amount_usd
                      /\ t.amount_ngn = req[w].amount_ngn]_vars

\* C16 witness: a registered user's submission of 0.375 USD through CashApp, whose
\* rate the admin had set to 1, has just been accepted: the trade is Pending, owned
\* by that user, and says 0.38 NGN (0.375 rounded to 2 decimals).
C16_Witness ==
    /\ response = [handler |-> "deposit", redirect |-> "dashboard",
                   flash |-> "Trade submitted - status: Pending"]
    /\ session.role = Some("user")
    /\ trades # <<>>
    /\ trades[Len(trades)] = [user_id |-> session.user_id, method |-> "CashApp",
                              amount_usd |-> 3, amount_ngn |-> 38, proof |-> None,
                              status |-> "Pending"]
    /\ rates[2].rate_ngn_per_usd = 1

\* C17: register leaves the users unchanged when the lower-cased email is already
\* present or when email or password is empty (or when it waits in vain for the write
\* lock that another request keeps), and otherwise creates exactly one user with
\* balance 0 and role user; so in every reachable state, also with two register
\* requests for one email handled concurrently, no two users share an email, and the
\* only admin is the one init_db seeded, no step changing an existing user.
C17_RegisterKeepsEmailsUnique ==
    /\ [](\A i, j \in Ids(users) : i # j => users[i].email # users[j].email)
    /\ [](\A i \in Ids(users) : users[i].role = "admin" <=> i = 1)
    /\ [][\/ users' = users
          \/ /\ Len(users') = Len(users) + 1
             /\ \A i \in Ids(users) : users'[i] = users[i]
             /\ users'[Len(users')].balance_ngn = Naira(0)
             /\ users'[Len(users')].role = "user"
             /\ users'[Len(users')].email # ""
             /\ users'[Len(users')].email = Normalize(users'[Len(users')].email)]_vars
    /\ [][\A i \in RegisterForms :
            ( /\ response'.handler = "register"
              /\ register(i[1], i[2]) )
            => IF \/ Normalize(i[1]) = ""
                  \/ i[2] = ""
                  \/ \E u \in Ids(users) : users[u].email = Normalize(i[1])
                  \/ txn.owner # 0
               THEN users' = users
               ELSE users' = Append(users, [email |-> Normalize(i[1]),
                                            password |-> generate_password_hash(i[2]),
                                            balance_ngn |-> Naira(0), role |-> "user"])]_vars

\* C17 witness: a register request for a@x.com found no such user, another request
\* for that email committed its row meanwhile, and the first one's INSERT has just
\* failed on the unique email, leaving one user a@x.com beside the admin.
C17_Witness ==
    /\ response = [handler |-> "register", redirect |-> "",
                   flash |-> "sqlite3.IntegrityError"]
    /\ Len(users) = 2
    /\ users[2] = [email |-> "a@x.com", password |-> generate_password_hash("admin123"),
                   balance_ngn |-> Naira(0), role |-> "user"]
    /\ \A w \in Workers : req[w].pc = "idle"

\* C18: a rate whose status is locked accepts no new trade: a submitTrade naming a
\* method whose rate row is locked at that moment inserts no trade.
C18_LockedRateRejectsTrades ==
    [][\A i \in DepositInputs :
          ( /\ response'.handler = "deposit"
            /\ \E k \in RateByMethod(i[1]) : rates[k].status = "locked"
            /\ deposit(i[1], i[2], i[3]) )
          => trades' = trades]_vars

\* the sum of amount_ngn over the Approved rows of user u among the first n rows of
\* a request table
RECURSIVE SumApproved(_, _, _)
SumApproved(table, u, n) ==
    IF n = 0 THEN 0
    ELSE SumApproved(table, u, n - 1)
         + (IF table[n].user_id = u /\ table[n].status = "Approved"
            THEN table[n].amount_ngn ELSE 0)

\* C19: ledger conservation: in every reachable state each user's balance equals the
\* sum of amountNgn over the user's Approved trades minus the sum of amountNgn over
\* the user's Approved withdrawals.
C19_LedgerConservation ==
    \A u \in Ids(users) :
        Balance(u) = Naira(SumApproved(trades, u, Len(trades))
                           - SumApproved(withdrawals, u, Len(withdrawals)))

\* C20: no overdraft: no user's balance is negative in any reachable state, also when
\* a user holds several Pending withdrawals whose sum exceeds the balance and their
\* approvals are handled concurrently, balance reads and decrements interleaved.
\* Stated for the case the claim is about: the states whose trades and withdrawals
\* all have positive amounts and in which no request was settled twice.
C20_NoOverdraft ==
    ( /\ \A tid \in Ids(trades) : trades[tid].amount_ngn > 0 /\ credited[tid] <= 1
      /\ \A wid \in Ids(withdrawals) : withdrawals[wid].amount_ngn > 0 /\ debited[wid] <= 1 )
    => \A u \in Ids(users) : ~Less(Balance(u), Naira(0))

====
